---- MODULE Spec2Model ----
(***************************************************************************)
(* A model of the playwise playlist engine: the Song record, the doubly    *)
(* linked playlist, the playback history stack, the rating BST, the song   *)
(* hash map, the playlist explorer tree, the sorter, and the               *)
(* PlaylistEngine that keeps them synchronised.                            *)
(*                                                                         *)
(* Go strings are modelled as sequences of code points, *models.Song       *)
(* pointers as handles into the heap `songs` (0 is nil).                   *)
(***************************************************************************)
EXTENDS Integers, Sequences, FiniteSets, TLC

(***************************************************************************)
(* Bounds of the model.                                                    *)
(***************************************************************************)
\* number of Song objects the engine may allocate in one behaviour
MaxSongs == 2
\* largest value the wall clock (time.Now) takes
MaxClock == 1
\* number of plays the engine is driven to in one behaviour
MaxPlays == 2
\* length the list is driven to, and the songs it is filled with, on its own
MaxListLen == 4
MaxListSongs == 3
\* maximum size the history stack is created with, the songs pushed, and the
\* number of pushes not yet popped, on its own
StackMaxSize == 2
MaxStackSongs == 2
MaxPushed == 4
\* length of the slices the sorter is handed on its own
MaxSortLen == 4

(***************************************************************************)
(* strings                                                                 *)
(***************************************************************************)
EmptyString == <<>>

\* unicode.IsSpace on the ASCII range
IsSpace(c) == c \in {9, 10, 11, 12, 13, 32}

RECURSIVE TrimLeft(_)
TrimLeft(s) ==
    IF s = <<>> THEN s
    ELSE IF IsSpace(Head(s)) THEN TrimLeft(Tail(s)) ELSE s

RECURSIVE TrimRight(_)
TrimRight(s) ==
    IF s = <<>> THEN s
    ELSE IF IsSpace(s[Len(s)]) THEN TrimRight(SubSeq(s, 1, Len(s) - 1)) ELSE s

\* a TrimSpace that takes nothing off
TrimSpace_Nothing(s) == s

\* strings.TrimSpace
TrimSpace(s) == TrimRight(TrimLeft(s))

IsUpper(c) == c >= 65 /\ c <= 90
IsLower(c) == c >= 97 /\ c <= 122
IsDigit(c) == c >= 48 /\ c <= 57

\* strings.ToLower
ToLower(s) == [i \in 1..Len(s) |-> IF IsUpper(s[i]) THEN s[i] + 32 ELSE s[i]]

\* strings.ReplaceAll(s, " ", "-")
ReplaceSpaces(s) == [i \in 1..Len(s) |-> IF s[i] = 32 THEN 45 ELSE s[i]]

\* strings.Title: the first letter of every word is upper-cased; a word
\* starts after a separator (anything but a letter, a digit or '_')
IsSeparator(c) == ~(IsUpper(c) \/ IsLower(c) \/ IsDigit(c) \/ c = 95)
Title(s) ==
    [i \in 1..Len(s) |->
        IF IsLower(s[i]) /\ (i = 1 \/ IsSeparator(s[i - 1]))
        THEN s[i] - 32 ELSE s[i]]

\* fmt.Sprintf("%d", n) for n >= 0
RECURSIVE Itoa(_)
Itoa(n) == IF n < 10 THEN <<48 + n>> ELSE Itoa(n \div 10) \o <<48 + (n % 10)>>

\* strings.Compare: -1, 0 or +1 by lexicographic order of the bytes
RECURSIVE Compare(_, _)
Compare(a, b) ==
    IF a = <<>> /\ b = <<>> THEN 0
    ELSE IF a = <<>> THEN -1
    ELSE IF b = <<>> THEN 1
    ELSE IF Head(a) < Head(b) THEN -1
    ELSE IF Head(a) > Head(b) THEN 1
    ELSE Compare(Tail(a), Tail(b))

(***************************************************************************)
(* 64-bit machine integers of the hash function, as four 16-bit limbs      *)
(* (least significant first); the arithmetic wraps at 2^64.                *)
(***************************************************************************)
Limb == 2 ^ 16

Int64(n) == <<n % Limb, (n \div Limb) % Limb, 0, 0>>

\* h * 33 + c  (mod 2^64)
MulAdd33(h, c) ==
    LET t1 == h[1] * 33 + c
        t2 == h[2] * 33 + (t1 \div Limb)
        t3 == h[3] * 33 + (t2 \div Limb)
        t4 == h[4] * 33 + (t3 \div Limb)
    IN  <<t1 % Limb, t2 % Limb, t3 % Limb, t4 % Limb>>

IsNegative64(h) == h[4] >= Limb \div 2

\* -h (mod 2^64): the two's complement; math.MinInt64 negates to itself
Negate64(h) ==
    LET n1 == (Limb - 1 - h[1]) + 1
        n2 == (Limb - 1 - h[2]) + (n1 \div Limb)
        n3 == (Limb - 1 - h[3]) + (n2 \div Limb)
        n4 == (Limb - 1 - h[4]) + (n3 \div Limb)
    IN  <<n1 % Limb, n2 % Limb, n3 % Limb, n4 % Limb>>

\* h % m for a non-negative h and 0 < m <= 2^15
Mod64(h, m) ==
    LET r4 == h[4] % m
        r3 == (r4 * Limb + h[3]) % m
        r2 == (r3 * Limb + h[2]) % m
        r1 == (r2 * Limb + h[1]) % m
    IN  r1

RECURSIVE djb2(_, _)
djb2(h, key) == IF key = <<>> THEN h ELSE djb2(MulAdd33(h, Head(key)), Tail(key))

(***************************************************************************)
(* SongHashMap: Buckets[i + 1] is the chain of bucket i, a sequence of     *)
(* entries [Key, Value] in chain order.                                    *)
(***************************************************************************)
DefaultCapacity == 16

NewSongHashMap(capacity) ==
    LET c == IF capacity <= 0 THEN DefaultCapacity ELSE capacity
    IN  [Buckets |-> [i \in 1..c |-> <<>>], Size |-> 0, Capacity |-> c]

\* SongHashMap.hash: djb2, made non-negative, modulo the capacity.  Go's %
\* truncates, so the one value whose negation is still negative
\* (math.MinInt64, the limbs of 2^63) gives a result <= 0.
hash(key, capacity) ==
    LET h == djb2(Int64(5381), key)
        a == IF IsNegative64(h) THEN Negate64(h) ELSE h
    IN  IF IsNegative64(a) THEN 0 - Mod64(a, capacity)
        ELSE Mod64(a, capacity)

\* index of the first entry of the chain with this key, 0 when there is none
ChainFind(chain, key) ==
    IF \E i \in 1..Len(chain) : chain[i].Key = key
    THEN CHOOSE i \in 1..Len(chain) :
            /\ chain[i].Key = key
            /\ \A j \in 1..(i - 1) : chain[j].Key # key
    ELSE 0

RECURSIVE SHM_PutKey(_, _, _, _)
RECURSIVE SHM_resize(_, _)

\* a Put that leaves the song stored under a key where it is
SHM_PutKey_Keep(shm, hp, key, song) ==
    LET index == hash(key, shm.Capacity)
        chain == shm.Buckets[index + 1]
        entry == [Key |-> key, Value |-> song]
    IN  IF chain = <<>>
        THEN [shm EXCEPT !.Buckets[index + 1] = <<entry>>, !.Size = @ + 1]
        ELSE IF ChainFind(chain, key) # 0
        THEN shm
        ELSE LET grown == [shm EXCEPT !.Buckets[index + 1] = Append(chain, entry),
                                      !.Size = @ + 1]
             IN  IF grown.Size > grown.Capacity * 2
                 THEN SHM_resize(grown, hp)
                 ELSE grown

\* the body shared by Put (key = song.ID) and PutByTitle (key = song.Title)
SHM_PutKey(shm, hp, key, song) ==
    LET index == hash(key, shm.Capacity)
        chain == shm.Buckets[index + 1]
        at    == ChainFind(chain, key)
        entry == [Key |-> key, Value |-> song]
    IN  IF chain = <<>>
        THEN \* empty bucket: new entry, and return without the resize check
             [shm EXCEPT !.Buckets[index + 1] = <<entry>>, !.Size = @ + 1]
        ELSE IF at # 0
        THEN [shm EXCEPT !.Buckets[index + 1][at].Value = song]
        ELSE LET grown == [shm EXCEPT !.Buckets[index + 1] = Append(chain, entry),
                                      !.Size = @ + 1]
             IN  IF grown.Size > grown.Capacity * 2
                 THEN SHM_resize(grown, hp)
                 ELSE grown

SHM_Put(shm, hp, song) ==
    IF song = 0 \/ hp[song].ID = <<>> THEN shm
    ELSE SHM_PutKey(shm, hp, hp[song].ID, song)

SHM_PutByTitle(shm, hp, song) ==
    IF song = 0 \/ hp[song].Title = <<>> THEN shm
    ELSE SHM_PutKey(shm, hp, hp[song].Title, song)

\* all entries, bucket by bucket, each chain front to back
RECURSIVE SHM_Entries(_, _)
SHM_Entries(buckets, i) ==
    IF i > Len(buckets) THEN <<>> ELSE buckets[i] \o SHM_Entries(buckets, i + 1)

RECURSIVE SHM_Rehash(_, _, _)
SHM_Rehash(shm, hp, entries) ==
    IF entries = <<>> THEN shm
    ELSE SHM_Rehash(
            IF Head(entries).Value = 0 \/ hp[Head(entries).Value].ID = <<>> THEN shm
            ELSE SHM_PutKey(shm, hp, hp[Head(entries).Value].ID, Head(entries).Value),
            hp, Tail(entries))

\* resize doubles the capacity and re-inserts every entry's Value with Put,
\* that is under the song's ID, whatever key the entry had
SHM_resize(shm, hp) ==
    SHM_Rehash([Buckets  |-> [i \in 1..(shm.Capacity * 2) |-> <<>>],
                Size     |-> 0,
                Capacity |-> shm.Capacity * 2],
               hp, SHM_Entries(shm.Buckets, 1))

\* Get and GetByTitle: [ok, song]
SHM_Get(shm, songID) ==
    IF songID = <<>> THEN [ok |-> FALSE, song |-> 0]
    ELSE LET chain == shm.Buckets[hash(songID, shm.Capacity) + 1]
             at    == ChainFind(chain, songID)
         IN  IF at = 0 THEN [ok |-> FALSE, song |-> 0]
             ELSE [ok |-> TRUE, song |-> chain[at].Value]

SHM_GetByTitle(shm, title) == SHM_Get(shm, title)

SHM_Contains(shm, songID) == SHM_Get(shm, songID).ok

RemoveAt(seq, i) == SubSeq(seq, 1, i - 1) \o SubSeq(seq, i + 1, Len(seq))

\* a Delete that finds nothing
SHM_Delete_Nothing(shm, songID) == [ok |-> FALSE, song |-> 0, shm |-> shm]

\* Delete: [ok, song, shm]
SHM_Delete(shm, songID) ==
    IF songID = <<>> THEN [ok |-> FALSE, song |-> 0, shm |-> shm]
    ELSE LET index == hash(songID, shm.Capacity)
             chain == shm.Buckets[index + 1]
             at    == ChainFind(chain, songID)
         IN  IF chain = <<>> \/ at = 0 THEN [ok |-> FALSE, song |-> 0, shm |-> shm]
             ELSE [ok   |-> TRUE,
                   song |-> chain[at].Value,
                   shm  |-> [shm EXCEPT !.Buckets[index + 1] = RemoveAt(chain, at),
                                        !.Size = @ - 1]]

\* UpdateSong: [ok, shm]; the entry is looked up under song.ID
SHM_UpdateSong(shm, hp, song) ==
    IF song = 0 \/ hp[song].ID = <<>> THEN [ok |-> FALSE, shm |-> shm]
    ELSE LET index == hash(hp[song].ID, shm.Capacity)
             chain == shm.Buckets[index + 1]
             at    == ChainFind(chain, hp[song].ID)
         IN  IF at = 0 THEN [ok |-> FALSE, shm |-> shm]
             ELSE [ok  |-> TRUE,
                   shm |-> [shm EXCEPT !.Buckets[index + 1][at].Value = song]]

\* a Clear that keeps the entries
SHM_Clear_Nothing(shm) == shm

SHM_Clear(shm) ==
    [shm EXCEPT !.Buckets = [i \in 1..shm.Capacity |-> <<>>], !.Size = 0]

SHM_GetSize(shm) == shm.Size

(***************************************************************************)
(* DoublyLinkedList: nodes maps a node address to [Song, Next, Prev];      *)
(* address 0 is nil.  A node that is unlinked is dropped from the map      *)
(* (garbage collected).                                                    *)
(***************************************************************************)
NewDoublyLinkedList == [Head |-> 0, Tail |-> 0, Length |-> 0, nodes |-> <<>>]

\* the address of a freshly allocated node
NewNode(nodes) ==
    CHOOSE n \in 1..(Cardinality(DOMAIN nodes) + 1) :
        /\ n \notin DOMAIN nodes
        /\ \A m \in 1..(n - 1) : m \in DOMAIN nodes

DLL_AddSong(dll, song) ==
    LET n       == NewNode(dll.nodes)
        newNode == [Song |-> song, Next |-> 0, Prev |-> dll.Tail]
    IN  IF dll.Head = 0
        THEN [Head |-> n, Tail |-> n, Length |-> dll.Length + 1,
              nodes |-> (n :> newNode) @@ dll.nodes]
        ELSE [Head |-> dll.Head, Tail |-> n, Length |-> dll.Length + 1,
              nodes |-> (n :> newNode) @@ [dll.nodes EXCEPT ![dll.Tail].Next = n]]

\* an AddSongToBeginning that leaves the old head without its Prev
DLL_AddSongToBeginning_NoPrev(dll, song) ==
    LET n       == NewNode(dll.nodes)
        newNode == [Song |-> song, Next |-> dll.Head, Prev |-> 0]
    IN  IF dll.Head = 0
        THEN [Head |-> n, Tail |-> n, Length |-> dll.Length + 1,
              nodes |-> (n :> newNode) @@ dll.nodes]
        ELSE [Head |-> n, Tail |-> dll.Tail, Length |-> dll.Length + 1,
              nodes |-> (n :> newNode) @@ dll.nodes]

DLL_AddSongToBeginning(dll, song) ==
    LET n       == NewNode(dll.nodes)
        newNode == [Song |-> song, Next |-> dll.Head, Prev |-> 0]
    IN  IF dll.Head = 0
        THEN [Head |-> n, Tail |-> n, Length |-> dll.Length + 1,
              nodes |-> (n :> newNode) @@ dll.nodes]
        ELSE [Head |-> n, Tail |-> dll.Tail, Length |-> dll.Length + 1,
              nodes |-> (n :> newNode) @@ [dll.nodes EXCEPT ![dll.Head].Prev = n]]

RECURSIVE WalkNext(_, _, _)
WalkNext(nodes, current, steps) ==
    IF steps <= 0 THEN current ELSE WalkNext(nodes, nodes[current].Next, steps - 1)

RECURSIVE WalkPrev(_, _, _)
WalkPrev(nodes, current, steps) ==
    IF steps <= 0 THEN current ELSE WalkPrev(nodes, nodes[current].Prev, steps - 1)

\* getNodeAtIndex walks from the nearer end
DLL_getNodeAtIndex(dll, index) ==
    IF index < dll.Length \div 2
    THEN WalkNext(dll.nodes, dll.Head, index)
    ELSE WalkPrev(dll.nodes, dll.Tail, dll.Length - 1 - index)

Unlink(nodes, n) == [m \in DOMAIN nodes \ {n} |-> nodes[m]]

\* DeleteSong: [ok, song, dll]
DLL_DeleteSong(dll, index) ==
    IF index < 0 \/ index >= dll.Length
    THEN [ok |-> FALSE, song |-> 0, dll |-> dll]
    ELSE IF dll.Length = 1
    THEN [ok |-> TRUE, song |-> dll.nodes[dll.Head].Song,
          dll |-> [Head |-> 0, Tail |-> 0, Length |-> 0,
                   nodes |-> Unlink(dll.nodes, dll.Head)]]
    ELSE LET nodeToDelete == DLL_getNodeAtIndex(dll, index)
             node         == dll.nodes[nodeToDelete]
         IN  [ok   |-> TRUE,
              song |-> node.Song,
              dll  |->
                IF nodeToDelete = dll.Head
                THEN [Head |-> node.Next, Tail |-> dll.Tail, Length |-> dll.Length - 1,
                      nodes |-> Unlink([dll.nodes EXCEPT ![node.Next].Prev = 0],
                                       nodeToDelete)]
                ELSE IF nodeToDelete = dll.Tail
                THEN [Head |-> dll.Head, Tail |-> node.Prev, Length |-> dll.Length - 1,
                      nodes |-> Unlink([dll.nodes EXCEPT ![node.Prev].Next = 0],
                                       nodeToDelete)]
                ELSE [Head |-> dll.Head, Tail |-> dll.Tail, Length |-> dll.Length - 1,
                      nodes |-> Unlink([dll.nodes EXCEPT ![node.Prev].Next = node.Next,
                                                         ![node.Next].Prev = node.Prev],
                                       nodeToDelete)]]

\* AddSongAtIndex: [ok, dll]
DLL_AddSongAtIndex(dll, song, index) ==
    IF index < 0 \/ index > dll.Length THEN [ok |-> FALSE, dll |-> dll]
    ELSE IF index = dll.Length THEN [ok |-> TRUE, dll |-> DLL_AddSong(dll, song)]
    ELSE IF index = 0 THEN [ok |-> TRUE, dll |-> DLL_AddSongToBeginning(dll, song)]
    ELSE LET n       == NewNode(dll.nodes)
             current == DLL_getNodeAtIndex(dll, index)
             prev    == dll.nodes[current].Prev
             newNode == [Song |-> song, Next |-> current, Prev |-> prev]
         IN  [ok  |-> TRUE,
              dll |-> [Head |-> dll.Head, Tail |-> dll.Tail, Length |-> dll.Length + 1,
                       nodes |-> (n :> newNode) @@
                                 [dll.nodes EXCEPT ![prev].Next = n,
                                                   ![current].Prev = n]]]

\* a MoveSong that takes the song out and does not put it back
DLL_MoveSong_Drop(dll, fromIndex, toIndex) ==
    IF fromIndex < 0 \/ fromIndex >= dll.Length \/ toIndex < 0 \/ toIndex >= dll.Length
    THEN [ok |-> FALSE, dll |-> dll]
    ELSE IF fromIndex = toIndex THEN [ok |-> TRUE, dll |-> dll]
    ELSE [ok |-> TRUE, dll |-> DLL_DeleteSong(dll, fromIndex).dll]

\* MoveSong: [ok, dll]
DLL_MoveSong(dll, fromIndex, toIndex) ==
    IF fromIndex < 0 \/ fromIndex >= dll.Length \/ toIndex < 0 \/ toIndex >= dll.Length
    THEN [ok |-> FALSE, dll |-> dll]
    ELSE IF fromIndex = toIndex THEN [ok |-> TRUE, dll |-> dll]
    ELSE LET del == DLL_DeleteSong(dll, fromIndex)
             to  == IF toIndex > fromIndex THEN toIndex - 1 ELSE toIndex
         IN  IF ~del.ok THEN [ok |-> FALSE, dll |-> del.dll]
             ELSE DLL_AddSongAtIndex(del.dll, del.song, to)

\* the loop of ReversePlaylist: swap Next and Prev of current, then go on
\* with what was its Next
RECURSIVE ReverseLoop(_, _)
ReverseLoop(nodes, current) ==
    IF current = 0 THEN nodes
    ELSE LET temp == nodes[current].Prev
             next == nodes[current].Next
         IN  ReverseLoop([nodes EXCEPT ![current].Prev = next,
                                       ![current].Next = temp],
                         next)

\* a ReversePlaylist that leaves Head and Tail where they are
DLL_ReversePlaylist_HeadStays(dll) ==
    IF dll.Head = 0 \/ dll.Head = dll.Tail THEN dll
    ELSE [dll EXCEPT !.nodes = ReverseLoop(dll.nodes, dll.Head)]

DLL_ReversePlaylist(dll) ==
    IF dll.Head = 0 \/ dll.Head = dll.Tail THEN dll
    ELSE [Head |-> dll.Tail, Tail |-> dll.Head, Length |-> dll.Length,
          nodes |-> ReverseLoop(dll.nodes, dll.Head)]

DLL_Clear(dll) == NewDoublyLinkedList

\* the node addresses met going from `current` along Next.  ToSlice has no
\* step limit; `fuel` only ends the evaluation on a list that has a cycle.
RECURSIVE ForwardFrom(_, _, _)
ForwardFrom(nodes, current, fuel) ==
    IF current = 0 \/ fuel = 0 THEN <<>>
    ELSE <<current>> \o ForwardFrom(nodes, nodes[current].Next, fuel - 1)

RECURSIVE BackwardFrom(_, _, _)
BackwardFrom(nodes, current, fuel) ==
    IF current = 0 \/ fuel = 0 THEN <<>>
    ELSE <<current>> \o BackwardFrom(nodes, nodes[current].Prev, fuel - 1)

Forward(dll)  == ForwardFrom(dll.nodes, dll.Head, Cardinality(DOMAIN dll.nodes) + 1)
Backward(dll) == BackwardFrom(dll.nodes, dll.Tail, Cardinality(DOMAIN dll.nodes) + 1)

DLL_ToSlice(dll) == [i \in 1..Len(Forward(dll)) |-> dll.nodes[Forward(dll)[i]].Song]

\* the songs met going from Tail along Prev
DLL_ToSliceBackward(dll) ==
    [i \in 1..Len(Backward(dll)) |-> dll.nodes[Backward(dll)[i]].Song]

\* a GetSong that takes an index past the end for the last song
DLL_GetSong_Clamp(dll, index) ==
    IF index < 0 \/ dll.Length = 0 THEN [ok |-> FALSE, song |-> 0]
    ELSE IF index >= dll.Length THEN [ok |-> TRUE, song |-> dll.nodes[dll.Tail].Song]
    ELSE [ok |-> TRUE, song |-> dll.nodes[DLL_getNodeAtIndex(dll, index)].Song]

\* GetSong: [ok, song]
DLL_GetSong(dll, index) ==
    IF index < 0 \/ index >= dll.Length THEN [ok |-> FALSE, song |-> 0]
    ELSE [ok |-> TRUE, song |-> dll.nodes[DLL_getNodeAtIndex(dll, index)].Song]

DLL_Size(dll) == dll.Length

DLL_IsEmpty(dll) == dll.Length = 0

(***************************************************************************)
(* PlaybackHistoryStack: Top is the chain from the top node down, as the   *)
(* sequence of its songs; Size is the counter the code keeps beside it.    *)
(***************************************************************************)
DefaultMaxSize == 50

NewPlaybackHistoryStack(maxSize) ==
    [Top |-> <<>>, Size |-> 0,
     MaxSize |-> IF maxSize <= 0 THEN DefaultMaxSize ELSE maxSize]

PHS_Clear(phs) == [phs EXCEPT !.Top = <<>>, !.Size = 0]

\* a removeBottom that cuts the top off
PHS_removeBottom_Top(phs) ==
    IF phs.Size <= 1 THEN PHS_Clear(phs)
    ELSE [phs EXCEPT !.Top = Tail(phs.Top), !.Size = @ - 1]

\* removeBottom walks to the node before the last and cuts the last off
PHS_removeBottom(phs) ==
    IF phs.Size <= 1 THEN PHS_Clear(phs)
    ELSE [phs EXCEPT !.Top = SubSeq(phs.Top, 1, Len(phs.Top) - 1), !.Size = @ - 1]

PHS_Push(phs, song) ==
    LET pushed == [phs EXCEPT !.Top = <<song>> \o phs.Top, !.Size = @ + 1]
    IN  IF pushed.Size > pushed.MaxSize THEN PHS_removeBottom(pushed) ELSE pushed

PHS_IsEmpty(phs) == phs.Size = 0

\* a Pop that takes the bottom entry
PHS_Pop_Bottom(phs) ==
    IF PHS_IsEmpty(phs) THEN [ok |-> FALSE, song |-> 0, phs |-> phs]
    ELSE [ok |-> TRUE, song |-> phs.Top[Len(phs.Top)],
          phs |-> [phs EXCEPT !.Top = SubSeq(phs.Top, 1, Len(phs.Top) - 1),
                              !.Size = @ - 1]]

\* Pop: [ok, song, phs]
PHS_Pop(phs) ==
    IF PHS_IsEmpty(phs) THEN [ok |-> FALSE, song |-> 0, phs |-> phs]
    ELSE [ok |-> TRUE, song |-> Head(phs.Top),
          phs |-> [phs EXCEPT !.Top = Tail(phs.Top), !.Size = @ - 1]]

PHS_UndoLastPlay(phs) == PHS_Pop(phs)

RECURSIVE PHS_Shrink(_)
PHS_Shrink(phs) == IF phs.Size > phs.MaxSize THEN PHS_Shrink(PHS_removeBottom(phs)) ELSE phs

PHS_SetMaxSize(phs, newMaxSize) ==
    IF newMaxSize <= 0 THEN phs
    ELSE PHS_Shrink([phs EXCEPT !.MaxSize = newMaxSize])

Min(a, b) == IF a < b THEN a ELSE b

\* a GetRecentSongs that returns the songs played first
PHS_GetRecentSongs_Oldest(phs, n) ==
    IF n <= 0 THEN <<>>
    ELSE SubSeq(phs.Top, Len(phs.Top) - Min(n, Len(phs.Top)) + 1, Len(phs.Top))

\* GetRecentSongs: the first n songs met going from Top along Next

PHS_GetRecentSongs(phs, n) ==
    IF n <= 0 THEN <<>> ELSE SubSeq(phs.Top, 1, Min(n, Len(phs.Top)))

PHS_ToSlice(phs) == phs.Top

PHS_GetSize(phs) == phs.Size

(***************************************************************************)
(* models.Song                                                             *)
(***************************************************************************)
\* time stamps: LastPlayed is a pointer, NoTime is its nil
NoTime == <<>>

NewSong(id, title, artist, album, genre, subgenre, mood, duration, bpm, now) ==
    [ID |-> id, Title |-> title, Artist |-> artist, Album |-> album,
     Duration |-> duration, Genre |-> genre, SubGenre |-> subgenre, Mood |-> mood,
     BPM |-> bpm, Rating |-> 0, PlayCount |-> 0, AddedAt |-> now,
     LastPlayed |-> NoTime]

\* a Play that counts twice
Song_Play_Twice(hp, song, now) ==
    [hp EXCEPT ![song].PlayCount = @ + 2, ![song].LastPlayed = <<now>>]

\* Song.Play, on the song at handle `song` of the heap
Song_Play(hp, song, now) ==
    [hp EXCEPT ![song].PlayCount = @ + 1, ![song].LastPlayed = <<now>>]

\* Song.SetRating ignores a rating outside 1..5
Song_SetRating(hp, song, rating) ==
    IF rating >= 1 /\ rating <= 5 THEN [hp EXCEPT ![song].Rating = rating] ELSE hp

(***************************************************************************)
(* SongRatingBST: a tree is <<>> (nil) or <<node>> with                    *)
(* node = [Bucket |-> [Rating, Songs], Left, Right].                       *)
(***************************************************************************)
NilTree == <<>>

NewSongRatingBST == [Root |-> NilTree, NodeCount |-> 0]

\* RatingBucket.RemoveSong: the first song with this ID is overwritten by
\* the last one and the slice is cut by one
Bucket_RemoveSong(songs, hp, songID) ==
    IF \E i \in 1..Len(songs) : hp[songs[i]].ID = songID
    THEN LET i == CHOOSE k \in 1..Len(songs) :
                    /\ hp[songs[k]].ID = songID
                    /\ \A j \in 1..(k - 1) : hp[songs[j]].ID # songID
         IN  [removed |-> TRUE,
              songs   |-> SubSeq([songs EXCEPT ![i] = songs[Len(songs)]], 1, Len(songs) - 1)]
    ELSE [removed |-> FALSE, songs |-> songs]

\* insertNode: [tree, created]; created tells that NodeCount was incremented
RECURSIVE BST_insertNode(_, _, _)
BST_insertNode(tree, song, rating) ==
    IF tree = NilTree
    THEN [tree    |-> <<[Bucket |-> [Rating |-> rating, Songs |-> <<song>>],
                         Left |-> NilTree, Right |-> NilTree]>>,
          created |-> TRUE]
    ELSE LET node == tree[1]
         IN  IF rating = node.Bucket.Rating
             THEN [tree    |-> <<[node EXCEPT !.Bucket.Songs = Append(@, song)]>>,
                   created |-> FALSE]
             ELSE IF rating < node.Bucket.Rating
             THEN LET sub == BST_insertNode(node.Left, song, rating)
                  IN  [tree |-> <<[node EXCEPT !.Left = sub.tree]>>, created |-> sub.created]
             ELSE LET sub == BST_insertNode(node.Right, song, rating)
                  IN  [tree |-> <<[node EXCEPT !.Right = sub.tree]>>, created |-> sub.created]

\* InsertSong: [bst, heap]; the song's own rating is set as well
BST_InsertSong(bst, hp, song, rating) ==
    IF rating < 1 \/ rating > 5 THEN [bst |-> bst, heap |-> hp]
    ELSE LET ins == BST_insertNode(bst.Root, song, rating)
         IN  [bst  |-> [Root      |-> ins.tree,
                        NodeCount |-> bst.NodeCount + (IF ins.created THEN 1 ELSE 0)],
              heap |-> Song_SetRating(hp, song, rating)]

\* searchNode: the subtree whose root has this rating, or nil
RECURSIVE BST_searchNode(_, _)
BST_searchNode(tree, rating) ==
    IF tree = NilTree \/ tree[1].Bucket.Rating = rating THEN tree
    ELSE IF rating < tree[1].Bucket.Rating THEN BST_searchNode(tree[1].Left, rating)
    ELSE BST_searchNode(tree[1].Right, rating)

BST_SearchByRating(bst, rating) ==
    IF rating < 1 \/ rating > 5 THEN <<>>
    ELSE LET found == BST_searchNode(bst.Root, rating)
         IN  IF found # NilTree THEN found[1].Bucket.Songs ELSE <<>>

RECURSIVE BST_findMinNode(_)
BST_findMinNode(tree) ==
    IF tree[1].Left # NilTree THEN BST_findMinNode(tree[1].Left) ELSE tree

\* a deleteNode that leaves the node in the tree
BST_deleteNode_Nothing(tree, rating) == tree

RECURSIVE BST_deleteNode(_, _)
BST_deleteNode(tree, rating) ==
    IF tree = NilTree THEN NilTree
    ELSE LET node == tree[1]
         IN  IF rating < node.Bucket.Rating
             THEN <<[node EXCEPT !.Left = BST_deleteNode(node.Left, rating)]>>
             ELSE IF rating > node.Bucket.Rating
             THEN <<[node EXCEPT !.Right = BST_deleteNode(node.Right, rating)]>>
             ELSE IF node.Left = NilTree THEN node.Right
             ELSE IF node.Right = NilTree THEN node.Left
             ELSE LET successor == BST_findMinNode(node.Right)[1]
                  IN  <<[Bucket |-> successor.Bucket,
                         Left   |-> node.Left,
                         Right  |-> BST_deleteNode(node.Right, successor.Bucket.Rating)]>>

\* findSongInSubtree: the bucket of the node, then left, then right; 0 is nil
RECURSIVE BST_findSongInSubtree(_, _, _)
BST_findSongInSubtree(tree, hp, songID) ==
    IF tree = NilTree THEN 0
    ELSE LET songs == tree[1].Bucket.Songs
         IN  IF \E i \in 1..Len(songs) : hp[songs[i]].ID = songID
             THEN songs[CHOOSE i \in 1..Len(songs) :
                            /\ hp[songs[i]].ID = songID
                            /\ \A j \in 1..(i - 1) : hp[songs[j]].ID # songID]
             ELSE LET l == BST_findSongInSubtree(tree[1].Left, hp, songID)
                  IN  IF l # 0 THEN l
                      ELSE BST_findSongInSubtree(tree[1].Right, hp, songID)

BST_findSongByID(bst, hp, songID) == BST_findSongInSubtree(bst.Root, hp, songID)

\* the tree with the bucket of the node reached by searchNode replaced
RECURSIVE BST_setBucket(_, _, _)
BST_setBucket(tree, rating, songs) ==
    IF tree = NilTree THEN tree
    ELSE IF tree[1].Bucket.Rating = rating
    THEN <<[tree[1] EXCEPT !.Bucket.Songs = songs]>>
    ELSE IF rating < tree[1].Bucket.Rating
    THEN <<[tree[1] EXCEPT !.Left = BST_setBucket(@, rating, songs)]>>
    ELSE <<[tree[1] EXCEPT !.Right = BST_setBucket(@, rating, songs)]>>

\* a DeleteSong that finds nothing
BST_DeleteSong_Nothing(bst, hp, songID) == [removed |-> FALSE, bst |-> bst]

\* DeleteSong: [removed, bst]
BST_DeleteSong(bst, hp, songID) ==
    LET song == BST_findSongByID(bst, hp, songID)
    IN  IF song = 0 THEN [removed |-> FALSE, bst |-> bst]
        ELSE LET rating == hp[song].Rating
                 found  == BST_searchNode(bst.Root, rating)
             IN  IF found = NilTree THEN [removed |-> FALSE, bst |-> bst]
                 ELSE LET rem  == Bucket_RemoveSong(found[1].Bucket.Songs, hp, songID)
                          root == BST_setBucket(bst.Root, rating, rem.songs)
                      IN  IF rem.removed /\ rem.songs = <<>>
                          THEN [removed |-> TRUE,
                                bst |-> [Root      |-> BST_deleteNode(root, rating),
                                         NodeCount |-> bst.NodeCount - 1]]
                          ELSE [removed |-> rem.removed,
                                bst |-> [Root |-> root, NodeCount |-> bst.NodeCount]]

\* rangeSearch: the songs of the node when its rating is in the range, then
\* those of the left subtree when minRating is below the node's rating, then
\* those of the right subtree when maxRating is above it
RECURSIVE BST_rangeSearch(_, _, _)
BST_rangeSearch(tree, minRating, maxRating) ==
    IF tree = NilTree THEN <<>>
    ELSE LET node == tree[1]
         IN  (IF node.Bucket.Rating >= minRating /\ node.Bucket.Rating <= maxRating
              THEN node.Bucket.Songs ELSE <<>>)
             \o (IF minRating < node.Bucket.Rating
                 THEN BST_rangeSearch(node.Left, minRating, maxRating) ELSE <<>>)
             \o (IF maxRating > node.Bucket.Rating
                 THEN BST_rangeSearch(node.Right, minRating, maxRating) ELSE <<>>)

\* a GetSongsByRatingRange that searches whatever the bounds are
BST_GetSongsByRatingRange_AnyBounds(bst, minRating, maxRating) ==
    BST_rangeSearch(bst.Root, minRating, maxRating)

BST_GetSongsByRatingRange(bst, minRating, maxRating) ==
    IF minRating > maxRating \/ minRating < 1 \/ maxRating > 5 THEN <<>>
    ELSE BST_rangeSearch(bst.Root, minRating, maxRating)

\* inorderTraversal: left subtree, the node's songs, right subtree
RECURSIVE BST_inorderTraversal(_)
BST_inorderTraversal(tree) ==
    IF tree = NilTree THEN <<>>
    ELSE BST_inorderTraversal(tree[1].Left) \o tree[1].Bucket.Songs
            \o BST_inorderTraversal(tree[1].Right)

BST_GetAllSongs(bst) == BST_inorderTraversal(bst.Root)

BST_Clear(bst) == NewSongRatingBST

\* the nodes of a tree, as the sequence of their buckets in preorder
RECURSIVE BST_Buckets(_)
BST_Buckets(tree) ==
    IF tree = NilTree THEN <<>>
    ELSE <<tree[1].Bucket>> \o BST_Buckets(tree[1].Left) \o BST_Buckets(tree[1].Right)

(***************************************************************************)
(* PlaylistExplorerTree: a node is [Name, NodeType, Children, Songs] with  *)
(* Children the map from a child's name to the child node.                 *)
(***************************************************************************)
GenreNode == 0
SubgenreNode == 1
MoodNode == 2
ArtistNode == 3

NoChildren == <<>>

NewPlaylistTreeNode(name, nodeType) ==
    [Name |-> name, NodeType |-> nodeType, Children |-> NoChildren, Songs |-> <<>>]

\* "Root", "Unknown Genre", "Unknown Subgenre", "Unknown Mood", "Unknown Artist"
RootName == <<82, 111, 111, 116>>
UnknownGenre == <<85, 110, 107, 110, 111, 119, 110, 32, 71, 101, 110, 114, 101>>
UnknownSubgenre ==
    <<85, 110, 107, 110, 111, 119, 110, 32, 83, 117, 98, 103, 101, 110, 114, 101>>
UnknownMood == <<85, 110, 107, 110, 111, 119, 110, 32, 77, 111, 111, 100>>
UnknownArtist == <<85, 110, 107, 110, 111, 119, 110, 32, 65, 114, 116, 105, 115, 116>>

NewPlaylistExplorerTree ==
    [Root       |-> NewPlaylistTreeNode(RootName, GenreNode),
     TotalSongs |-> 0,
     Stats      |-> [genres |-> 0, subgenres |-> 0, moods |-> 0, artists |-> 0]]

HasChild(node, name) == name \in DOMAIN node.Children

\* PlaylistTreeNode.AddChild keeps an existing child
Node_AddChild(node, childName, childType) ==
    IF HasChild(node, childName) THEN node
    ELSE [node EXCEPT !.Children =
            (childName :> NewPlaylistTreeNode(childName, childType)) @@ node.Children]

\* an AddSong of the node that stores nothing
Node_AddSong_Nothing(node, song) == node

\* PlaylistTreeNode.AddSong stores songs on artist nodes only
Node_AddSong(node, song) ==
    IF node.NodeType = ArtistNode THEN [node EXCEPT !.Songs = Append(@, song)] ELSE node

\* a Normalize that keeps the case of the letters
Normalize_KeepCase(s, unknown) ==
    LET n == Title(TrimSpace(s)) IN IF n = <<>> THEN unknown ELSE n

Normalize(s, unknown) ==
    LET n == Title(ToLower(TrimSpace(s))) IN IF n = <<>> THEN unknown ELSE n

PET_AddSong(pet, hp, song) ==
    IF song = 0 THEN pet
    ELSE
    LET genre    == Normalize(hp[song].Genre, UnknownGenre)
        subgenre == Normalize(hp[song].SubGenre, UnknownSubgenre)
        mood     == Normalize(hp[song].Mood, UnknownMood)
        artist   == Normalize(hp[song].Artist, UnknownArtist)
        newG     == ~HasChild(pet.Root, genre)
        root1    == Node_AddChild(pet.Root, genre, GenreNode)
        g1       == root1.Children[genre]
        newS     == ~HasChild(g1, subgenre)
        g2       == Node_AddChild(g1, subgenre, SubgenreNode)
        s1       == g2.Children[subgenre]
        newM     == ~HasChild(s1, mood)
        s2       == Node_AddChild(s1, mood, MoodNode)
        m1       == s2.Children[mood]
        newA     == ~HasChild(m1, artist)
        m2       == Node_AddChild(m1, artist, ArtistNode)
        a2       == Node_AddSong(m2.Children[artist], song)
        m3       == [m2 EXCEPT !.Children[artist] = a2]
        s3       == [s2 EXCEPT !.Children[mood] = m3]
        g3       == [g2 EXCEPT !.Children[subgenre] = s3]
        root3    == [root1 EXCEPT !.Children[genre] = g3]
    IN  [Root       |-> root3,
         TotalSongs |-> pet.TotalSongs + 1,
         Stats      |-> [genres    |-> pet.Stats.genres + (IF newG THEN 1 ELSE 0),
                         subgenres |-> pet.Stats.subgenres + (IF newS THEN 1 ELSE 0),
                         moods     |-> pet.Stats.moods + (IF newM THEN 1 ELSE 0),
                         artists   |-> pet.Stats.artists + (IF newA THEN 1 ELSE 0)]]

PET_GetGenres(pet) == DOMAIN pet.Root.Children

\* GetSubgenres, GetMoods, GetArtists: the names of the children of the node
\* on this path, in no fixed order; none when the path does not exist
PET_GetSubgenres(pet, genre) ==
    IF ~HasChild(pet.Root, genre) THEN {}
    ELSE DOMAIN pet.Root.Children[genre].Children

PET_GetMoods(pet, genre, subgenre) ==
    IF ~HasChild(pet.Root, genre) THEN {}
    ELSE IF ~HasChild(pet.Root.Children[genre], subgenre) THEN {}
    ELSE DOMAIN pet.Root.Children[genre].Children[subgenre].Children

PET_GetArtists(pet, genre, subgenre, mood) ==
    IF ~HasChild(pet.Root, genre) THEN {}
    ELSE IF ~HasChild(pet.Root.Children[genre], subgenre) THEN {}
    ELSE IF ~HasChild(pet.Root.Children[genre].Children[subgenre], mood) THEN {}
    ELSE DOMAIN pet.Root.Children[genre].Children[subgenre].Children[mood].Children

\* GetSongs: the songs of the artist node on this path, empty when the path
\* does not exist
PET_GetSongs(pet, genre, subgenre, mood, artist) ==
    IF ~HasChild(pet.Root, genre) THEN <<>>
    ELSE IF ~HasChild(pet.Root.Children[genre], subgenre) THEN <<>>
    ELSE IF ~HasChild(pet.Root.Children[genre].Children[subgenre], mood) THEN <<>>
    ELSE IF ~HasChild(pet.Root.Children[genre].Children[subgenre].Children[mood], artist)
    THEN <<>>
    ELSE pet.Root.Children[genre].Children[subgenre].Children[mood].Children[artist].Songs

\* the paths <<genre, subgenre, mood, artist>> of the nodes four levels down
PET_Leaves(pet) ==
    UNION { UNION { UNION { { <<g, s, m, a>> :
        a \in DOMAIN pet.Root.Children[g].Children[s].Children[m].Children } :
        m \in DOMAIN pet.Root.Children[g].Children[s].Children } :
        s \in DOMAIN pet.Root.Children[g].Children } :
        g \in DOMAIN pet.Root.Children }

PET_LeafNode(pet, p) == pet.Root.Children[p[1]].Children[p[2]].Children[p[3]].Children[p[4]]

\* a RemoveSong that takes the artist node away with its last song
PET_RemoveSong_Prunes(pet, hp, songID) ==
    { LET songs == PET_LeafNode(pet, p).Songs
          i     == CHOOSE k \in 1..Len(songs) : hp[songs[k]].ID = songID
          mood  == pet.Root.Children[p[1]].Children[p[2]].Children[p[3]]
      IN  IF Len(songs) > 1
          THEN [pet EXCEPT
                 !.Root.Children[p[1]].Children[p[2]].Children[p[3]].Children[p[4]].Songs =
                     RemoveAt(songs, i),
                 !.TotalSongs = @ - 1]
          ELSE [pet EXCEPT
                 !.Root.Children[p[1]].Children[p[2]].Children[p[3]].Children =
                     [a \in (DOMAIN mood.Children) \ {p[4]} |-> mood.Children[a]],
                 !.TotalSongs = @ - 1]
      : p \in { q \in PET_Leaves(pet) :
                  \E k \in 1..Len(PET_LeafNode(pet, q).Songs) :
                        hp[PET_LeafNode(pet, q).Songs[k]].ID = songID } }

\* a RemoveSong that finds nothing
PET_RemoveSong_Nothing(pet, hp, songID) == {}

\* the depth-first search of RemoveSong visits the children of a node in the
\* order Go iterates over a map, which is not fixed; the first artist node
\* met that holds a song with this ID loses the first such song.  The set of
\* the trees that can result (empty: not found, nothing changes).
PET_RemoveSongOutcomes(pet, hp, songID) ==
    { LET songs == PET_LeafNode(pet, p).Songs
          i     == CHOOSE k \in 1..Len(songs) :
                      /\ hp[songs[k]].ID = songID
                      /\ \A j \in 1..(k - 1) : hp[songs[j]].ID # songID
      IN  [pet EXCEPT
             !.Root.Children[p[1]].Children[p[2]].Children[p[3]].Children[p[4]].Songs =
                 RemoveAt(songs, i),
             !.TotalSongs = @ - 1]
      : p \in { q \in PET_Leaves(pet) :
                  /\ PET_LeafNode(pet, q).NodeType = ArtistNode
                  /\ \E k \in 1..Len(PET_LeafNode(pet, q).Songs) :
                        hp[PET_LeafNode(pet, q).Songs[k]].ID = songID } }

PET_GetStats(pet) ==
    [total_songs |-> pet.TotalSongs, genres |-> pet.Stats.genres,
     subgenres |-> pet.Stats.subgenres, moods |-> pet.Stats.moods,
     artists |-> pet.Stats.artists]

(***************************************************************************)
(* PlaylistSorter.  A slice of songs is a sequence of handles; the Go      *)
(* index i is position i + 1.                                              *)
(***************************************************************************)
SortByTitle == 0
SortByArtist == 1
SortByDurationAsc == 2
SortByDurationDesc == 3
SortByRecentlyAdded == 4
SortByOldestAdded == 5
SortByRating == 6
SortByPlayCount == 7

CompareTitle(hp, song1, song2) ==
    Compare(ToLower(hp[song1].Title), ToLower(hp[song2].Title))

\* PlaylistSorter.compare
compare(criteria, hp, song1, song2) ==
    CASE criteria = SortByTitle -> CompareTitle(hp, song1, song2)
      [] criteria = SortByArtist ->
            LET artistCmp == Compare(ToLower(hp[song1].Artist), ToLower(hp[song2].Artist))
            IN  IF artistCmp = 0 THEN CompareTitle(hp, song1, song2) ELSE artistCmp
      [] criteria = SortByDurationAsc -> hp[song1].Duration - hp[song2].Duration
      [] criteria = SortByDurationDesc -> hp[song2].Duration - hp[song1].Duration
      [] criteria = SortByRecentlyAdded ->
            IF hp[song1].AddedAt > hp[song2].AddedAt THEN -1
            ELSE IF hp[song1].AddedAt < hp[song2].AddedAt THEN 1 ELSE 0
      [] criteria = SortByOldestAdded ->
            IF hp[song1].AddedAt < hp[song2].AddedAt THEN -1
            ELSE IF hp[song1].AddedAt > hp[song2].AddedAt THEN 1 ELSE 0
      [] criteria = SortByRating ->
            LET ratingDiff == hp[song2].Rating - hp[song1].Rating
            IN  IF ratingDiff = 0 THEN CompareTitle(hp, song1, song2) ELSE ratingDiff
      [] criteria = SortByPlayCount ->
            LET playCountDiff == hp[song2].PlayCount - hp[song1].PlayCount
            IN  IF playCountDiff = 0 THEN CompareTitle(hp, song1, song2) ELSE playCountDiff
      [] OTHER -> CompareTitle(hp, song1, song2)

Swap(songs, i, j) == [songs EXCEPT ![i + 1] = songs[j + 1], ![j + 1] = songs[i + 1]]

\* a merging loop in which the right element goes first on a tie
RECURSIVE MergeArrays_RightFirst(_, _, _, _)
MergeArrays_RightFirst(criteria, hp, leftArray, rightArray) ==
    IF leftArray = <<>> THEN rightArray
    ELSE IF rightArray = <<>> THEN leftArray
    ELSE IF compare(criteria, hp, Head(leftArray), Head(rightArray)) < 0
    THEN <<Head(leftArray)>>
            \o MergeArrays_RightFirst(criteria, hp, Tail(leftArray), rightArray)
    ELSE <<Head(rightArray)>>
            \o MergeArrays_RightFirst(criteria, hp, leftArray, Tail(rightArray))

\* the merging loop of merge: the left element goes first on a tie
RECURSIVE MergeArrays(_, _, _, _)
MergeArrays(criteria, hp, leftArray, rightArray) ==
    IF leftArray = <<>> THEN rightArray
    ELSE IF rightArray = <<>> THEN leftArray
    ELSE IF compare(criteria, hp, Head(leftArray), Head(rightArray)) <= 0
    THEN <<Head(leftArray)>> \o MergeArrays(criteria, hp, Tail(leftArray), rightArray)
    ELSE <<Head(rightArray)>> \o MergeArrays(criteria, hp, leftArray, Tail(rightArray))

\* a merge that hands the two halves to the merging loop the other way round
merge_HalvesSwapped(criteria, hp, songs, left, mid, right) ==
    SubSeq(songs, 1, left)
    \o MergeArrays(criteria, hp, SubSeq(songs, mid + 2, right + 1),
                   SubSeq(songs, left + 1, mid + 1))
    \o SubSeq(songs, right + 2, Len(songs))

merge(criteria, hp, songs, left, mid, right) ==
    SubSeq(songs, 1, left)
    \o MergeArrays(criteria, hp, SubSeq(songs, left + 1, mid + 1),
                   SubSeq(songs, mid + 2, right + 1))
    \o SubSeq(songs, right + 2, Len(songs))

RECURSIVE mergeSortHelper(_, _, _, _, _)
mergeSortHelper(criteria, hp, songs, left, right) ==
    IF left < right
    THEN LET mid == left + (right - left) \div 2
             s1  == mergeSortHelper(criteria, hp, songs, left, mid)
             s2  == mergeSortHelper(criteria, hp, s1, mid + 1, right)
         IN  merge(criteria, hp, s2, left, mid, right)
    ELSE songs

MergeSort(criteria, hp, songs) ==
    IF Len(songs) <= 1 THEN songs
    ELSE mergeSortHelper(criteria, hp, songs, 0, Len(songs) - 1)

\* the loop of partition: [songs, i] after j has run from j to high - 1
RECURSIVE PartitionLoop(_, _, _, _, _, _, _)
PartitionLoop(criteria, hp, songs, pivot, i, j, high) ==
    IF j >= high THEN [songs |-> songs, i |-> i]
    ELSE IF compare(criteria, hp, songs[j + 1], pivot) <= 0
    THEN PartitionLoop(criteria, hp, Swap(songs, i + 1, j), pivot, i + 1, j + 1, high)
    ELSE PartitionLoop(criteria, hp, songs, pivot, i, j + 1, high)

\* a partition that leaves the pivot at the end
partition_PivotLast(criteria, hp, songs, low, high) ==
    LET loop == PartitionLoop(criteria, hp, songs, songs[high + 1], low - 1, low, high)
    IN  [songs |-> loop.songs, pivotIndex |-> loop.i + 1]

\* partition: [songs, pivotIndex]
partition(criteria, hp, songs, low, high) ==
    LET loop == PartitionLoop(criteria, hp, songs, songs[high + 1], low - 1, low, high)
    IN  [songs |-> Swap(loop.songs, loop.i + 1, high), pivotIndex |-> loop.i + 1]

RECURSIVE quickSortHelper(_, _, _, _, _)
quickSortHelper(criteria, hp, songs, low, high) ==
    IF low < high
    THEN LET p  == partition(criteria, hp, songs, low, high)
             s1 == quickSortHelper(criteria, hp, p.songs, low, p.pivotIndex - 1)
         IN  quickSortHelper(criteria, hp, s1, p.pivotIndex + 1, high)
    ELSE songs

QuickSort(criteria, hp, songs) ==
    IF Len(songs) <= 1 THEN songs
    ELSE quickSortHelper(criteria, hp, songs, 0, Len(songs) - 1)

\* a heapify that moves nothing
heapify_Nothing(criteria, hp, songs, n, i) == songs

RECURSIVE heapify(_, _, _, _, _)
heapify(criteria, hp, songs, n, i) ==
    LET left     == 2 * i + 1
        right    == 2 * i + 2
        largest1 == IF left < n /\ compare(criteria, hp, songs[left + 1], songs[i + 1]) > 0
                    THEN left ELSE i
        largest  == IF right < n
                       /\ compare(criteria, hp, songs[right + 1], songs[largest1 + 1]) > 0
                    THEN right ELSE largest1
    IN  IF largest # i
        THEN heapify(criteria, hp, Swap(songs, i, largest), n, largest)
        ELSE songs

\* for i := n/2 - 1; i >= 0; i-- { heapify(result, n, i) }
RECURSIVE BuildHeap(_, _, _, _, _)
BuildHeap(criteria, hp, songs, n, i) ==
    IF i < 0 THEN songs
    ELSE BuildHeap(criteria, hp, heapify(criteria, hp, songs, n, i), n, i - 1)

\* for i := n - 1; i > 0; i-- { swap 0 and i; heapify(result, i, 0) }
RECURSIVE ExtractLoop(_, _, _, _)
ExtractLoop(criteria, hp, songs, i) ==
    IF i <= 0 THEN songs
    ELSE ExtractLoop(criteria, hp, heapify(criteria, hp, Swap(songs, 0, i), i, 0), i - 1)

HeapSort(criteria, hp, songs) ==
    IF Len(songs) <= 1 THEN songs
    ELSE LET n == Len(songs)
         IN  ExtractLoop(criteria, hp,
                         BuildHeap(criteria, hp, songs, n, n \div 2 - 1), n - 1)

RECURSIVE DLL_AddAll(_, _)
DLL_AddAll(dll, songs) ==
    IF songs = <<>> THEN dll ELSE DLL_AddAll(DLL_AddSong(dll, Head(songs)), Tail(songs))

\* PlaylistSorter.SortPlaylist: the playlist is cleared and rebuilt
SortPlaylist(criteria, hp, playlist, algorithm) ==
    IF DLL_IsEmpty(playlist) THEN playlist
    ELSE LET songs       == DLL_ToSlice(playlist)
             sortedSongs == CASE algorithm = "merge" -> MergeSort(criteria, hp, songs)
                              [] algorithm = "quick" -> QuickSort(criteria, hp, songs)
                              [] algorithm = "heap"  -> HeapSort(criteria, hp, songs)
                              [] OTHER               -> MergeSort(criteria, hp, songs)
         IN  DLL_AddAll(DLL_Clear(playlist), sortedSongs)

(***************************************************************************)
(* PlaylistEngine                                                          *)
(***************************************************************************)
VARIABLES
    songs,            \* the heap of Song objects: songs[h] is the song at handle h
    currentPlaylist,  \* *DoublyLinkedList
    playbackHistory,  \* *PlaybackHistoryStack
    ratingTree,       \* *SongRatingBST
    songLookup,       \* *SongHashMap, keyed by song ID
    titleLookup,      \* *SongHashMap, keyed by title
    playlistTree,     \* *PlaylistExplorerTree
    sorter,           \* the criteria of the *PlaylistSorter
    totalPlayTime,    \* int
    clock,            \* what time.Now() returns
    pushed,           \* history's songs pushed and not yet popped, most recent first:
                      \* what a history without a maximum size would hold
    sortInput,        \* the slice handed to the sorter driven on its own
    sortOutput,       \* the slice that sorter returned
    overwritten,      \* ghost: the song whose place the last Put or PutByTitle took, 0 if none
    returned,         \* the slice the last query returned
    panicked          \* whether a call has panicked

vars == <<songs, currentPlaylist, playbackHistory, ratingTree, songLookup, titleLookup,
          playlistTree, sorter, totalPlayTime, clock, pushed,
          sortInput, sortOutput, overwritten, returned, panicked>>

\* NewPlaylistEngine: the history keeps 100 songs, the hash maps start with
\* 64 buckets
EngineHistorySize == 100
EngineMapCapacity == 64

Init ==
    /\ songs = <<>>
    /\ currentPlaylist = NewDoublyLinkedList
    /\ playbackHistory = NewPlaybackHistoryStack(EngineHistorySize)
    /\ ratingTree = NewSongRatingBST
    /\ songLookup = NewSongHashMap(EngineMapCapacity)
    /\ titleLookup = NewSongHashMap(EngineMapCapacity)
    /\ playlistTree = NewPlaylistExplorerTree
    /\ sorter = SortByTitle
    /\ totalPlayTime = 0
    /\ clock = 0
    /\ pushed = <<>>
    /\ sortInput = <<>>
    /\ sortOutput = <<>>
    /\ overwritten = 0
    /\ returned = <<>>
    /\ panicked = FALSE

\* generateSongID: "%s-%s-%d" of the lower-cased title and artist, blanks
\* replaced by dashes, and time.Now().UnixNano()
generateSongID(title, artist, now) ==
    ReplaceSpaces(ToLower(title)) \o <<45>> \o ReplaceSpaces(ToLower(artist))
        \o <<45>> \o Itoa(now)

(***************************************************************************)
(* The arguments the engine is called with.                                *)
(***************************************************************************)
\* "a", "A", "b", "x", " ", "rock", "Rock ", "jazz", "s", "m", "lp"
StrA == <<97>>
StrUpperA == <<65>>
StrB == <<98>>
StrX == <<120>>
StrBlank == <<32>>
StrRock == <<114, 111, 99, 107>>
StrRockSpace == <<82, 111, 99, 107, 32>>
StrJazz == <<106, 97, 122, 122>>
StrSub == <<115>>
StrMood == <<109>>
StrAlbum == <<108, 112>>

SongArgs(title, artist, genre, duration) ==
    [title |-> title, artist |-> artist, album |-> StrAlbum, genre |-> genre,
     subgenre |-> StrSub, mood |-> StrMood, duration |-> duration, bpm |-> 120]

ValidSongArgs ==
    { SongArgs(StrA, StrX, StrRockSpace, 1),
      SongArgs(StrUpperA, StrX, StrJazz, 2) }

InvalidSongArgs ==
    { SongArgs(StrBlank, StrX, StrRock, 1),
      SongArgs(StrA, EmptyString, StrRock, 1),
      SongArgs(EmptyString, StrBlank \o StrBlank, StrRock, 1) }

AllSongArgs == ValidSongArgs \cup InvalidSongArgs

\* an ID no song has: "nonexistent"
StrNonexistent == <<110, 111, 110, 101, 120, 105, 115, 116, 101, 110, 116>>

\* the IDs a caller can know of, and one that no song has
KnownIDs == { songs[h].ID : h \in DOMAIN songs } \cup { StrNonexistent }

Indexes == -1..(MaxSongs - 1)

Ratings == { 0, 2, 4, 6 }

Criteria == { SortByTitle, SortByDurationDesc }

Algorithms == { "merge", "quick", "heap", "bubble" }

(***************************************************************************)
(* time                                                                    *)
(***************************************************************************)
Tick ==
    /\ clock < MaxClock
    /\ clock' = clock + 1
    /\ UNCHANGED <<songs, currentPlaylist, playbackHistory, ratingTree, songLookup,
                   titleLookup, playlistTree, sorter, totalPlayTime, pushed,
                   sortInput, sortOutput, overwritten, returned, panicked>>

(***************************************************************************)
(* the operations of the engine                                            *)
(***************************************************************************)
\* a call that returns an error before it has changed anything
Unchanged == UNCHANGED vars

\* the errors the engine returns, NoError for nil
NoError == ""
ErrRating == "rating must be between 1 and 5"
ErrSongNotFound == "song not found"
ErrRequired == "title and artist are required"
ErrDuplicate == "song already exists in playlist"

\* the error AddSong returns
PE_AddSongError(a) ==
    IF TrimSpace(a.title) = EmptyString \/ TrimSpace(a.artist) = EmptyString
    THEN ErrRequired
    ELSE IF SHM_Contains(songLookup, generateSongID(a.title, a.artist, clock))
    THEN ErrDuplicate
    ELSE NoError

PE_AddSong(a) ==
    LET songID == generateSongID(a.title, a.artist, clock)
        song   == Len(songs) + 1
        heap1  == Append(songs, NewSong(songID, a.title, a.artist, a.album, a.genre,
                                        a.subgenre, a.mood, a.duration, a.bpm, clock))
        rated  == BST_InsertSong(ratingTree, heap1, song, heap1[song].Rating)
    IN  IF TrimSpace(a.title) = EmptyString \/ TrimSpace(a.artist) = EmptyString
        THEN Unchanged
        ELSE IF SHM_Contains(songLookup, songID)
        THEN Unchanged
        ELSE /\ Len(songs) < MaxSongs
             /\ currentPlaylist' = DLL_AddSong(currentPlaylist, song)
             /\ songLookup' = SHM_Put(songLookup, heap1, song)
             /\ titleLookup' = SHM_PutByTitle(titleLookup, heap1, song)
             /\ playlistTree' = PET_AddSong(playlistTree, heap1, song)
             /\ IF heap1[song].Rating > 0
                THEN ratingTree' = rated.bst /\ songs' = rated.heap
                ELSE ratingTree' = ratingTree /\ songs' = heap1
             /\ totalPlayTime' = totalPlayTime + a.duration
             /\ UNCHANGED <<playbackHistory, sorter, clock, pushed,
                            sortInput, sortOutput, overwritten, returned, panicked>>

\* a DeleteSong that takes the song's title out of the title index too
PE_DeleteSong_Title(index) ==
    LET del == DLL_DeleteSong(currentPlaylist, index)
        id  == songs[del.song].ID
        out == PET_RemoveSongOutcomes(playlistTree, songs, id)
    IN  IF ~del.ok
        THEN Unchanged
        ELSE /\ currentPlaylist' = del.dll
             /\ songLookup' = SHM_Delete(songLookup, id).shm
             /\ titleLookup' = SHM_Delete(titleLookup, songs[del.song].Title).shm
             /\ ratingTree' = IF songs[del.song].Rating > 0
                              THEN BST_DeleteSong(ratingTree, songs, id).bst
                              ELSE ratingTree
             /\ IF out = {} THEN playlistTree' = playlistTree
                ELSE playlistTree' \in out
             /\ totalPlayTime' = totalPlayTime - songs[del.song].Duration
             /\ UNCHANGED <<songs, playbackHistory, sorter, clock, pushed,
                            sortInput, sortOutput, overwritten, returned, panicked>>

\* a DeleteSong that clears the playback history
PE_DeleteSong_History(index) ==
    LET del == DLL_DeleteSong(currentPlaylist, index)
        id  == songs[del.song].ID
        out == PET_RemoveSongOutcomes(playlistTree, songs, id)
    IN  IF ~del.ok
        THEN Unchanged
        ELSE /\ currentPlaylist' = del.dll
             /\ songLookup' = SHM_Delete(songLookup, id).shm
             /\ playbackHistory' = PHS_Clear(playbackHistory)
             /\ ratingTree' = IF songs[del.song].Rating > 0
                              THEN BST_DeleteSong(ratingTree, songs, id).bst
                              ELSE ratingTree
             /\ IF out = {} THEN playlistTree' = playlistTree
                ELSE playlistTree' \in out
             /\ totalPlayTime' = totalPlayTime - songs[del.song].Duration
             /\ UNCHANGED <<songs, titleLookup, sorter, clock, pushed,
                            sortInput, sortOutput, overwritten, returned, panicked>>

\* DeleteSong: the song at the index leaves the playlist, the ID index, the
\* rating tree when it is rated, and the explorer tree

PE_DeleteSong(index) ==
    LET del == DLL_DeleteSong(currentPlaylist, index)
        id  == songs[del.song].ID
        out == PET_RemoveSongOutcomes(playlistTree, songs, id)
    IN  IF ~del.ok
        THEN Unchanged
        ELSE /\ currentPlaylist' = del.dll
             /\ songLookup' = SHM_Delete(songLookup, id).shm
             /\ ratingTree' = IF songs[del.song].Rating > 0
                              THEN BST_DeleteSong(ratingTree, songs, id).bst
                              ELSE ratingTree
             /\ IF out = {} THEN playlistTree' = playlistTree
                ELSE playlistTree' \in out
             /\ totalPlayTime' = totalPlayTime - songs[del.song].Duration
             /\ UNCHANGED <<songs, playbackHistory, titleLookup, sorter, clock, pushed,
                            sortInput, sortOutput, overwritten, returned, panicked>>

PE_MoveSong(fromIndex, toIndex) ==
    LET mv == DLL_MoveSong(currentPlaylist, fromIndex, toIndex)
    IN  /\ currentPlaylist' = mv.dll
        /\ UNCHANGED <<songs, playbackHistory, ratingTree, songLookup, titleLookup,
                       playlistTree, sorter, totalPlayTime, clock, pushed,
                       sortInput, sortOutput, overwritten, returned, panicked>>

PE_ReversePlaylist ==
    /\ currentPlaylist' = DLL_ReversePlaylist(currentPlaylist)
    /\ UNCHANGED <<songs, playbackHistory, ratingTree, songLookup, titleLookup,
                   playlistTree, sorter, totalPlayTime, clock, pushed,
                   sortInput, sortOutput, overwritten, returned, panicked>>

\* the plays made so far, over all songs
RECURSIVE TotalPlays(_)
TotalPlays(heap) ==
    IF heap = <<>> THEN 0
    ELSE heap[Len(heap)].PlayCount + TotalPlays(SubSeq(heap, 1, Len(heap) - 1))

PE_PlaySong(index) ==
    LET got   == DLL_GetSong(currentPlaylist, index)
        heap1 == Song_Play(songs, got.song, clock)
    IN  IF ~got.ok
        THEN Unchanged
        ELSE /\ TotalPlays(songs) < MaxPlays
             /\ songs' = heap1
             /\ playbackHistory' = PHS_Push(playbackHistory, got.song)
             /\ pushed' = <<got.song>> \o pushed
             /\ songLookup' = SHM_UpdateSong(songLookup, heap1, got.song).shm
             /\ titleLookup' = SHM_UpdateSong(titleLookup, heap1, got.song).shm
             /\ UNCHANGED <<currentPlaylist, ratingTree, playlistTree, sorter,
                            totalPlayTime, clock, sortInput, sortOutput, overwritten, returned, panicked>>

PE_UndoLastPlay ==
    LET pop == PHS_UndoLastPlay(playbackHistory)
    IN  /\ playbackHistory' = pop.phs
        /\ pushed' = IF pop.ok THEN Tail(pushed) ELSE pushed
        /\ UNCHANGED <<songs, currentPlaylist, ratingTree, songLookup, titleLookup,
                       playlistTree, sorter, totalPlayTime, clock,
                       sortInput, sortOutput, overwritten, returned, panicked>>

\* the error RateSong returns
PE_RateSongError(songID, rating) ==
    IF rating < 1 \/ rating > 5 THEN ErrRating
    ELSE IF ~SHM_Get(songLookup, songID).ok THEN ErrSongNotFound
    ELSE NoError

\* a RateSong that takes any rating
PE_RateSong_AnyRating(songID, rating) ==
    LET got   == SHM_Get(songLookup, songID)
        song  == got.song
        tree1 == IF songs[song].Rating > 0
                 THEN BST_DeleteSong(ratingTree, songs, songID).bst
                 ELSE ratingTree
        heap1 == [songs EXCEPT ![song].Rating = rating]
        ins   == BST_InsertSong(tree1, heap1, song, rating)
    IN  IF ~got.ok
        THEN Unchanged
        ELSE /\ songs' = ins.heap
             /\ ratingTree' = ins.bst
             /\ songLookup' = SHM_UpdateSong(songLookup, ins.heap, song).shm
             /\ titleLookup' = SHM_UpdateSong(titleLookup, ins.heap, song).shm
             /\ UNCHANGED <<currentPlaylist, playbackHistory, playlistTree, sorter,
                            totalPlayTime, clock, pushed,
                            sortInput, sortOutput, overwritten, returned, panicked>>

PE_RateSong(songID, rating) ==
    LET got   == SHM_Get(songLookup, songID)
        song  == got.song
        tree1 == IF songs[song].Rating > 0
                 THEN BST_DeleteSong(ratingTree, songs, songID).bst
                 ELSE ratingTree
        heap1 == Song_SetRating(songs, song, rating)
        ins   == BST_InsertSong(tree1, heap1, song, rating)
    IN  IF rating < 1 \/ rating > 5
        THEN Unchanged
        ELSE IF ~got.ok
        THEN Unchanged
        ELSE /\ songs' = ins.heap
             /\ ratingTree' = ins.bst
             /\ songLookup' = SHM_UpdateSong(songLookup, ins.heap, song).shm
             /\ titleLookup' = SHM_UpdateSong(titleLookup, ins.heap, song).shm
             /\ UNCHANGED <<currentPlaylist, playbackHistory, playlistTree, sorter,
                            totalPlayTime, clock, pushed,
                            sortInput, sortOutput, overwritten, returned, panicked>>

PE_SortPlaylist(criteria, algorithm) ==
    /\ sorter' = criteria
    /\ currentPlaylist' = SortPlaylist(criteria, songs, currentPlaylist, algorithm)
    /\ UNCHANGED <<songs, playbackHistory, ratingTree, songLookup, titleLookup,
                   playlistTree, totalPlayTime, clock, pushed,
                   sortInput, sortOutput, overwritten, returned, panicked>>

\* a ClearPlaylist that leaves the total play time
PE_ClearPlaylist_KeepsTotal ==
    /\ currentPlaylist' = DLL_Clear(currentPlaylist)
    /\ ratingTree' = BST_Clear(ratingTree)
    /\ songLookup' = SHM_Clear(songLookup)
    /\ titleLookup' = SHM_Clear(titleLookup)
    /\ playlistTree' = NewPlaylistExplorerTree
    /\ UNCHANGED <<songs, playbackHistory, sorter, totalPlayTime, clock, pushed,
                   sortInput, sortOutput, overwritten, returned, panicked>>

PE_ClearPlaylist ==
    /\ currentPlaylist' = DLL_Clear(currentPlaylist)
    /\ ratingTree' = BST_Clear(ratingTree)
    /\ songLookup' = SHM_Clear(songLookup)
    /\ titleLookup' = SHM_Clear(titleLookup)
    /\ playlistTree' = NewPlaylistExplorerTree
    /\ totalPlayTime' = 0
    /\ UNCHANGED <<songs, playbackHistory, sorter, clock, pushed,
                   sortInput, sortOutput, overwritten, returned, panicked>>

\* the sum of a sequence of numbers
RECURSIVE SeqSum(_)
SeqSum(seq) == IF seq = <<>> THEN 0 ELSE Head(seq) + SeqSum(Tail(seq))

\* what GetPlaylistStats returns, the average length and the rating
\* distribution left out
PE_GetPlaylistStats ==
    LET all == DLL_ToSlice(currentPlaylist)
    IN  [total_songs      |-> DLL_Size(currentPlaylist),
         total_duration   |-> totalPlayTime,
         total_play_count |-> SeqSum([i \in DOMAIN all |-> songs[all[i]].PlayCount]),
         unique_artists   |-> Cardinality({ songs[all[i]].Artist : i \in DOMAIN all }),
         unique_genres    |-> PET_GetStats(playlistTree).genres,
         history_size     |-> PHS_GetSize(playbackHistory)]

\* GetPlaylistStats reads the engine and writes nothing
PE_GetPlaylistStatsCall ==
    /\ PE_GetPlaylistStats.total_songs >= 0
    /\ UNCHANGED vars

\* the five longest songs ExportSnapshot returns
PE_TopLongest ==
    LET sortedByDuration == MergeSort(SortByDurationDesc, songs, DLL_ToSlice(currentPlaylist))
    IN  SubSeq(sortedByDuration, 1, Min(5, Len(sortedByDuration)))

\* an ExportSnapshot that leaves the playlist in the order it sorted it in
PE_ExportSnapshot_Sorts ==
    /\ sorter' = SortByDurationDesc
    /\ currentPlaylist' = SortPlaylist(SortByDurationDesc, songs, currentPlaylist, "merge")
    /\ UNCHANGED <<songs, playbackHistory, ratingTree, songLookup, titleLookup,
                   playlistTree, totalPlayTime, clock, pushed,
                   sortInput, sortOutput, overwritten, returned, panicked>>

\* ExportSnapshot sets the criteria of the engine's sorter to sort a copy of
\* the playlist, and reads the rest
PE_ExportSnapshot ==
    /\ sorter' = SortByDurationDesc
    /\ Len(PE_TopLongest) <= 5
    /\ UNCHANGED <<songs, currentPlaylist, playbackHistory, ratingTree, songLookup,
                   titleLookup, playlistTree, totalPlayTime, clock, pushed,
                   sortInput, sortOutput, overwritten, returned, panicked>>

\* Song.IsSimilar: the same genre and mood, durations at most 30 s apart
Song_IsSimilar(hp, s, other) ==
    /\ hp[s].Genre = hp[other].Genre
    /\ hp[s].Mood = hp[other].Mood
    /\ (IF hp[s].Duration - hp[other].Duration < 0
        THEN hp[other].Duration - hp[s].Duration
        ELSE hp[s].Duration - hp[other].Duration) <= 30

\* a containsSong that finds nothing
containsSong_Never(hp, list, songID) == FALSE

\* containsSong: one of the songs has this ID
containsSong(hp, list, songID) == \E i \in DOMAIN list : hp[list[i]].ID = songID

\* GetSmartRecommendations looks at the last 20 songs played and returns 10
\* songs when asked for none
RecentWindow == 20
DefaultCount == 10

\* the first loop of GetSmartRecommendations, from allSongs[i] on: the songs
\* not played recently that are similar to one played recently
RECURSIVE SimilarLoop(_, _, _, _, _, _)
SimilarLoop(hp, allSongs, recentSongs, count, recommendations, i) ==
    IF i > Len(allSongs) \/ Len(recommendations) >= count THEN recommendations
    ELSE CHOOSE out \in
            { SimilarLoop(hp, allSongs, recentSongs, count, next, i + 1) :
                 next \in { IF containsSong(hp, recentSongs, hp[allSongs[i]].ID)
                            THEN recommendations
                            ELSE IF \E r \in DOMAIN recentSongs :
                                       Song_IsSimilar(hp, allSongs[i], recentSongs[r])
                            THEN Append(recommendations, allSongs[i])
                            ELSE recommendations } } : TRUE

\* the second loop: the songs not played recently and not yet recommended
RECURSIVE FillLoop(_, _, _, _, _, _)
FillLoop(hp, allSongs, recentSongs, count, recommendations, i) ==
    IF i > Len(allSongs) \/ Len(recommendations) >= count THEN recommendations
    ELSE CHOOSE out \in
            { FillLoop(hp, allSongs, recentSongs, count, next, i + 1) :
                 next \in { IF /\ ~containsSong(hp, recentSongs, hp[allSongs[i]].ID)
                               /\ ~containsSong(hp, recommendations, hp[allSongs[i]].ID)
                            THEN Append(recommendations, allSongs[i])
                            ELSE recommendations } } : TRUE

\* a GetSmartRecommendations that takes count as it comes
PE_GetSmartRecommendations_NoDefault(count) ==
    LET recentSongs == PHS_GetRecentSongs(playbackHistory, RecentWindow)
        allSongs    == DLL_ToSlice(currentPlaylist)
    IN  IF Len(recentSongs) = 0
        THEN SubSeq(allSongs, 1, Min(count, Len(allSongs)))
        ELSE CHOOSE out \in
                { FillLoop(songs, allSongs, recentSongs, count, similar, 1) :
                     similar \in { SimilarLoop(songs, allSongs, recentSongs, count, <<>>, 1) } }
                : TRUE

\* GetSmartRecommendations: the songs recommended, at most count of them

PE_GetSmartRecommendations(count) ==
    LET c           == IF count <= 0 THEN DefaultCount ELSE count
        recentSongs == PHS_GetRecentSongs(playbackHistory, RecentWindow)
        allSongs    == DLL_ToSlice(currentPlaylist)
    IN  IF Len(recentSongs) = 0
        THEN SubSeq(allSongs, 1, Min(c, Len(allSongs)))
        ELSE CHOOSE out \in
                { FillLoop(songs, allSongs, recentSongs, c, similar, 1) :
                     similar \in { SimilarLoop(songs, allSongs, recentSongs, c, <<>>, 1) } }
                : TRUE

AddSong == \E a \in AllSongArgs : PE_AddSong(a)
DeleteSong == \E index \in Indexes : PE_DeleteSong(index)
MoveSong == \E fromIndex \in Indexes, toIndex \in Indexes : PE_MoveSong(fromIndex, toIndex)
ReversePlaylist == PE_ReversePlaylist
PlaySong == \E index \in Indexes : PE_PlaySong(index)
UndoLastPlay == PE_UndoLastPlay
RateSong == \E songID \in KnownIDs, rating \in Ratings : PE_RateSong(songID, rating)
SortSongs == \E criteria \in Criteria, algorithm \in Algorithms :
                PE_SortPlaylist(criteria, algorithm)
ClearPlaylist == PE_ClearPlaylist

ExportSnapshot == PE_ExportSnapshot

GetPlaylistStats == PE_GetPlaylistStatsCall

Next ==
    \/ Tick
    \/ AddSong
    \/ DeleteSong
    \/ MoveSong
    \/ ReversePlaylist
    \/ PlaySong
    \/ UndoLastPlay
    \/ RateSong
    \/ SortSongs
    \/ ClearPlaylist
    \/ ExportSnapshot
    \/ GetPlaylistStats

Spec == Init /\ [][Next]_vars

(***************************************************************************)
(* The doubly linked list driven on its own, every operation with every    *)
(* index.  The songs are handles; the list never looks into them.          *)
(***************************************************************************)
ListSongs == 1..MaxListSongs

ListIndexes == -1..MaxListLen

AllButPlaylist == <<songs, playbackHistory, ratingTree, songLookup, titleLookup,
                    playlistTree, sorter, totalPlayTime, clock, pushed,
                    sortInput, sortOutput, overwritten, returned, panicked>>

L_AddSong(song) ==
    /\ currentPlaylist.Length < MaxListLen
    /\ currentPlaylist' = DLL_AddSong(currentPlaylist, song)
    /\ UNCHANGED AllButPlaylist

L_AddSongAtIndex(song, index) ==
    /\ currentPlaylist.Length < MaxListLen
    /\ currentPlaylist' = DLL_AddSongAtIndex(currentPlaylist, song, index).dll
    /\ UNCHANGED AllButPlaylist

L_AddSongToBeginning(song) ==
    /\ currentPlaylist.Length < MaxListLen
    /\ currentPlaylist' = DLL_AddSongToBeginning(currentPlaylist, song)
    /\ UNCHANGED AllButPlaylist

L_DeleteSong(index) ==
    /\ currentPlaylist' = DLL_DeleteSong(currentPlaylist, index).dll
    /\ UNCHANGED AllButPlaylist

L_MoveSong(fromIndex, toIndex) ==
    /\ currentPlaylist' = DLL_MoveSong(currentPlaylist, fromIndex, toIndex).dll
    /\ UNCHANGED AllButPlaylist

L_ReversePlaylist ==
    /\ currentPlaylist' = DLL_ReversePlaylist(currentPlaylist)
    /\ UNCHANGED AllButPlaylist

L_Clear ==
    /\ currentPlaylist' = DLL_Clear(currentPlaylist)
    /\ UNCHANGED AllButPlaylist

ListAdd == \E song \in ListSongs : L_AddSong(song)
ListAddAtIndex == \E song \in ListSongs, index \in ListIndexes : L_AddSongAtIndex(song, index)
ListAddToBeginning == \E song \in ListSongs : L_AddSongToBeginning(song)
ListDelete == \E index \in ListIndexes : L_DeleteSong(index)
ListMove == \E fromIndex \in ListIndexes, toIndex \in ListIndexes :
                L_MoveSong(fromIndex, toIndex)

NextDLL ==
    \/ ListAdd
    \/ ListAddAtIndex
    \/ ListAddToBeginning
    \/ ListDelete
    \/ ListMove
    \/ L_ReversePlaylist
    \/ L_Clear

SpecDLL == Init /\ [][NextDLL]_vars

(***************************************************************************)
(* The playback history stack driven on its own, with a small maximum      *)
(* size so that pushes evict.                                              *)
(***************************************************************************)
StackSongs == 1..MaxStackSongs

StackSizes == 0..(StackMaxSize + 1)

AllButHistory == <<songs, currentPlaylist, ratingTree, songLookup, titleLookup,
                   playlistTree, sorter, totalPlayTime, clock,
                   sortInput, sortOutput, overwritten, returned, panicked>>

InitStack ==
    /\ songs = <<>>
    /\ currentPlaylist = NewDoublyLinkedList
    /\ playbackHistory = NewPlaybackHistoryStack(StackMaxSize)
    /\ ratingTree = NewSongRatingBST
    /\ songLookup = NewSongHashMap(EngineMapCapacity)
    /\ titleLookup = NewSongHashMap(EngineMapCapacity)
    /\ playlistTree = NewPlaylistExplorerTree
    /\ sorter = SortByTitle
    /\ totalPlayTime = 0
    /\ clock = 0
    /\ pushed = <<>>
    /\ sortInput = <<>>
    /\ sortOutput = <<>>
    /\ overwritten = 0
    /\ returned = <<>>
    /\ panicked = FALSE

S_Push(song) ==
    /\ Len(pushed) < MaxPushed
    /\ playbackHistory' = PHS_Push(playbackHistory, song)
    /\ pushed' = <<song>> \o pushed
    /\ UNCHANGED AllButHistory

S_Pop ==
    LET pop == PHS_Pop(playbackHistory)
    IN  /\ playbackHistory' = pop.phs
        /\ pushed' = IF pop.ok THEN Tail(pushed) ELSE pushed
        /\ UNCHANGED AllButHistory

S_Clear ==
    /\ playbackHistory' = PHS_Clear(playbackHistory)
    /\ pushed' = <<>>
    /\ UNCHANGED AllButHistory

S_SetMaxSize(newMaxSize) ==
    /\ playbackHistory' = PHS_SetMaxSize(playbackHistory, newMaxSize)
    /\ UNCHANGED pushed
    /\ UNCHANGED AllButHistory

S_GetRecentSongs(n) ==
    /\ returned' = PHS_GetRecentSongs(playbackHistory, n)
    /\ UNCHANGED <<songs, currentPlaylist, playbackHistory, ratingTree, songLookup,
                   titleLookup, playlistTree, sorter, totalPlayTime, clock, pushed,
                   sortInput, sortOutput, overwritten, panicked>>

RecentCounts == -1..(StackMaxSize + 1)

StackPush == \E song \in StackSongs : S_Push(song)
StackSetMaxSize == \E newMaxSize \in StackSizes : S_SetMaxSize(newMaxSize)
StackRecent == \E n \in RecentCounts : S_GetRecentSongs(n)

NextStack ==
    \/ StackPush
    \/ S_Pop
    \/ S_Clear
    \/ StackSetMaxSize
    \/ StackRecent

SpecStack == InitStack /\ [][NextStack]_vars

(***************************************************************************)
(* The sorter driven on its own: any criteria, any slice of up to          *)
(* MaxSortLen of four songs, some of which compare equal under each of     *)
(* the criteria.                                                           *)
(***************************************************************************)
SortSong(title, duration, rating, playCount, addedAt) ==
    [NewSong(title, title, StrX, StrAlbum, StrRock, StrSub, StrMood, duration, 120, addedAt)
        EXCEPT !.Rating = rating, !.PlayCount = playCount]

\* durations 400, 150, 250 first, as TestMergeSort has them
SortCatalog ==
    << SortSong(StrA, 400, 4, 0, 0),
       SortSong(StrUpperA, 150, 4, 0, 1),
       SortSong(StrB, 250, 4, 1, 1),
       SortSong(StrB, 150, 2, 1, 0) >>

SortInputs == UNION { [1..n -> DOMAIN SortCatalog] : n \in 0..MaxSortLen }

AllCriteria ==
    { SortByTitle, SortByArtist, SortByDurationAsc, SortByDurationDesc,
      SortByRecentlyAdded, SortByOldestAdded, SortByRating, SortByPlayCount }

AllButSorter == <<currentPlaylist, playbackHistory, ratingTree, songLookup, titleLookup,
                  playlistTree, totalPlayTime, clock, pushed, overwritten, returned, panicked>>

InitSort ==
    /\ songs = SortCatalog
    /\ currentPlaylist = NewDoublyLinkedList
    /\ playbackHistory = NewPlaybackHistoryStack(EngineHistorySize)
    /\ ratingTree = NewSongRatingBST
    /\ songLookup = NewSongHashMap(EngineMapCapacity)
    /\ titleLookup = NewSongHashMap(EngineMapCapacity)
    /\ playlistTree = NewPlaylistExplorerTree
    /\ sorter \in AllCriteria
    /\ totalPlayTime = 0
    /\ clock = 0
    /\ pushed = <<>>
    /\ sortInput \in SortInputs
    /\ sortOutput = <<>>
    /\ overwritten = 0
    /\ returned = <<>>
    /\ panicked = FALSE

S_SetCriteria(criteria) ==
    /\ sorter' = criteria
    /\ UNCHANGED <<songs, sortInput, sortOutput, overwritten, returned, panicked>>
    /\ UNCHANGED AllButSorter

\* each sort works on a copy of the slice it is handed
S_MergeSort ==
    /\ sortOutput' = MergeSort(sorter, songs, sortInput)
    /\ UNCHANGED <<songs, sorter, sortInput>>
    /\ UNCHANGED AllButSorter

S_QuickSort ==
    /\ sortOutput' = QuickSort(sorter, songs, sortInput)
    /\ UNCHANGED <<songs, sorter, sortInput>>
    /\ UNCHANGED AllButSorter

S_HeapSort ==
    /\ sortOutput' = HeapSort(sorter, songs, sortInput)
    /\ UNCHANGED <<songs, sorter, sortInput>>
    /\ UNCHANGED AllButSorter

SorterSetCriteria == \E criteria \in AllCriteria : S_SetCriteria(criteria)

NextSort ==
    \/ SorterSetCriteria
    \/ S_MergeSort
    \/ S_QuickSort
    \/ S_HeapSort

SpecSort == InitSort /\ [][NextSort]_vars

(***************************************************************************)
(* SampleDataLoader: LoadSampleData feeds the songs of generateSampleSongs *)
(* to the engine, AddSong first and RateSong after it.  The engine the     *)
(* loop works on is the record of the engine's fields; the time.Now() of   *)
(* each AddSong is one of `times`.                                         *)
(***************************************************************************)
MaxLoaded == 2

\* "c"
StrC == <<99>>

\* generateSampleSongs: models.NewSong with the ID "" and the rating set
SampleSong(title, artist, genre, duration, rating) ==
    [NewSong(EmptyString, title, artist, StrAlbum, genre, StrSub, StrMood, duration, 120, 0)
        EXCEPT !.Rating = rating]

generateSampleSongs ==
    << SampleSong(StrA, StrX, StrRock, 1, 5), SampleSong(StrC, StrX, StrJazz, 2, 4) >>

Engine ==
    [songs |-> songs, currentPlaylist |-> currentPlaylist, ratingTree |-> ratingTree,
     songLookup |-> songLookup, titleLookup |-> titleLookup,
     playlistTree |-> playlistTree, totalPlayTime |-> totalPlayTime]

\* PlaylistEngine.AddSong on the engine e at the time now: [ok, e]
LD_AddSong(e, title, artist, album, genre, subgenre, mood, duration, bpm, now) ==
    LET songID == generateSongID(title, artist, now)
        song   == Len(e.songs) + 1
        heap1  == Append(e.songs, NewSong(songID, title, artist, album, genre,
                                          subgenre, mood, duration, bpm, now))
        rated  == BST_InsertSong(e.ratingTree, heap1, song, heap1[song].Rating)
    IN  IF TrimSpace(title) = EmptyString \/ TrimSpace(artist) = EmptyString
        THEN [ok |-> FALSE, e |-> e]
        ELSE IF SHM_Contains(e.songLookup, songID)
        THEN [ok |-> FALSE, e |-> e]
        ELSE [ok |-> TRUE,
              e  |-> [songs |-> IF heap1[song].Rating > 0 THEN rated.heap ELSE heap1,
                      currentPlaylist |-> DLL_AddSong(e.currentPlaylist, song),
                      ratingTree |-> IF heap1[song].Rating > 0 THEN rated.bst
                                     ELSE e.ratingTree,
                      songLookup |-> SHM_Put(e.songLookup, heap1, song),
                      titleLookup |-> SHM_PutByTitle(e.titleLookup, heap1, song),
                      playlistTree |-> PET_AddSong(e.playlistTree, heap1, song),
                      totalPlayTime |-> e.totalPlayTime + duration]]

\* PlaylistEngine.RateSong on the engine e; the error it returns is dropped
LD_RateSong(e, songID, rating) ==
    LET got   == SHM_Get(e.songLookup, songID)
        song  == got.song
        tree1 == IF e.songs[song].Rating > 0
                 THEN BST_DeleteSong(e.ratingTree, e.songs, songID).bst
                 ELSE e.ratingTree
        heap1 == Song_SetRating(e.songs, song, rating)
        ins   == BST_InsertSong(tree1, heap1, song, rating)
    IN  IF rating < 1 \/ rating > 5 THEN e
        ELSE IF ~got.ok THEN e
        ELSE [e EXCEPT !.songs = ins.heap,
                       !.ratingTree = ins.bst,
                       !.songLookup = SHM_UpdateSong(e.songLookup, ins.heap, song).shm,
                       !.titleLookup = SHM_UpdateSong(e.titleLookup, ins.heap, song).shm]

\* one round of the loop of LoadSampleData: AddSong, on an error the next
\* song, else RateSong when the song of the catalog has a rating
LoadSong(e, song, now) ==
    LET added == LD_AddSong(e, song.Title, song.Artist, song.Album, song.Genre,
                            song.SubGenre, song.Mood, song.Duration, song.BPM, now)
    IN  IF ~added.ok THEN e
        ELSE IF song.Rating > 0 THEN LD_RateSong(added.e, song.ID, song.Rating)
        ELSE added.e

\* the loop of LoadSampleData over sdl.songs, from the i-th song on; the
\* engine after each round is the one value `next`
RECURSIVE LoadLoop(_, _, _, _)
LoadLoop(e, sdlSongs, times, i) ==
    IF i > Len(sdlSongs) THEN e
    ELSE CHOOSE loaded \in { LoadLoop(next, sdlSongs, times, i + 1) :
                                next \in { LoadSong(e, sdlSongs[i], times[i]) } } : TRUE

\* the times the AddSong calls of one LoadSampleData can see
LoadTimes ==
    { t \in [DOMAIN generateSampleSongs -> clock..MaxClock] :
         \A i, j \in DOMAIN t : i <= j => t[i] <= t[j] }

LoadSampleData(times) ==
    /\ Len(songs) + Len(generateSampleSongs) <= MaxLoaded
    /\ \E e \in { LoadLoop(Engine, generateSampleSongs, times, 1) } :
          /\ songs' = e.songs
          /\ currentPlaylist' = e.currentPlaylist
          /\ ratingTree' = e.ratingTree
          /\ songLookup' = e.songLookup
          /\ titleLookup' = e.titleLookup
          /\ playlistTree' = e.playlistTree
          /\ totalPlayTime' = e.totalPlayTime
    /\ clock' = times[Len(times)]
    /\ UNCHANGED <<playbackHistory, sorter, pushed, sortInput, sortOutput, overwritten, returned, panicked>>

LoadSamples == \E times \in LoadTimes : LoadSampleData(times)

NextLoad ==
    \/ Tick
    \/ LoadSamples
    \/ DeleteSong
    \/ RateSong
    \/ ReversePlaylist
    \/ ClearPlaylist

SpecLoad == Init /\ [][NextLoad]_vars

(***************************************************************************)
(* SongHashMap alone: songLookup takes songs with Put, titleLookup with    *)
(* PutByTitle, both start with MapCapacity buckets so that a third key     *)
(* makes them resize.  Two songs of the heap share an ID, two a title.     *)
(***************************************************************************)
MapCapacity == 1

MapSong(id, title) ==
    NewSong(id, title, StrX, StrAlbum, StrRock, StrSub, StrMood, 1, 120, 0)

MapCatalog ==
    << MapSong(StrA, StrX), MapSong(StrB, StrRock), MapSong(StrC, StrX),
       MapSong(StrA, StrJazz) >>

\* the songs Put is called with, nil among them
MapSongs == 0..Len(MapCatalog)

\* the keys Get and Delete are called with
MapIDs == { MapCatalog[h].ID : h \in DOMAIN MapCatalog }
MapTitles == { MapCatalog[h].Title : h \in DOMAIN MapCatalog }

AllButMaps == <<songs, currentPlaylist, playbackHistory, ratingTree, playlistTree, sorter,
                totalPlayTime, clock, pushed, sortInput, sortOutput, returned, panicked>>

InitMap ==
    /\ songs = MapCatalog
    /\ currentPlaylist = NewDoublyLinkedList
    /\ playbackHistory = NewPlaybackHistoryStack(EngineHistorySize)
    /\ ratingTree = NewSongRatingBST
    /\ songLookup = NewSongHashMap(MapCapacity)
    /\ titleLookup = NewSongHashMap(MapCapacity)
    /\ playlistTree = NewPlaylistExplorerTree
    /\ sorter = SortByTitle
    /\ totalPlayTime = 0
    /\ clock = 0
    /\ pushed = <<>>
    /\ sortInput = <<>>
    /\ sortOutput = <<>>
    /\ overwritten = 0
    /\ returned = <<>>
    /\ panicked = FALSE

M_Put(song) ==
    /\ songLookup' = SHM_Put(songLookup, songs, song)
    /\ overwritten' = IF song # 0 /\ SHM_Contains(songLookup, songs[song].ID)
                      THEN SHM_Get(songLookup, songs[song].ID).song
                      ELSE 0
    /\ UNCHANGED titleLookup
    /\ UNCHANGED AllButMaps

M_PutByTitle(song) ==
    /\ titleLookup' = SHM_PutByTitle(titleLookup, songs, song)
    /\ overwritten' = IF song # 0 /\ SHM_Contains(titleLookup, songs[song].Title)
                      THEN SHM_GetByTitle(titleLookup, songs[song].Title).song
                      ELSE 0
    /\ UNCHANGED songLookup
    /\ UNCHANGED AllButMaps

\* Delete on the map keyed by ID
M_Delete(songID) ==
    /\ songLookup' = SHM_Delete(songLookup, songID).shm
    /\ overwritten' = 0
    /\ UNCHANGED titleLookup
    /\ UNCHANGED AllButMaps

\* Delete on the map keyed by title
M_DeleteTitle(title) ==
    /\ titleLookup' = SHM_Delete(titleLookup, title).shm
    /\ overwritten' = 0
    /\ UNCHANGED songLookup
    /\ UNCHANGED AllButMaps

MapPut == \E song \in MapSongs : M_Put(song)
MapPutByTitle == \E song \in MapSongs : M_PutByTitle(song)
MapDelete == \E songID \in MapIDs : M_Delete(songID)
MapDeleteTitle == \E title \in MapTitles : M_DeleteTitle(title)

NextMap ==
    \/ MapPut
    \/ MapPutByTitle
    \/ MapDelete
    \/ MapDeleteTitle

SpecMap == InitMap /\ [][NextMap]_vars

(***************************************************************************)
(* GetSmartRecommendations alone: an engine that holds one of RecPlaylists *)
(* and has played one of RecHistories is asked for recommendations.        *)
(***************************************************************************)
MaxRecSongs == 11

\* songs 1, 2, 3 and 5 are alike in genre and mood; 1 and 2, 2 and 3 are
\* similar, 1 and 3 are not; the other songs are similar to one another
RecSong(i) ==
    NewSong(<<96 + i>>, <<64 + i>>, StrX, StrAlbum,
            IF i \in {1, 2, 3, 5} THEN StrRock ELSE StrJazz, StrSub, StrMood,
            IF i \in {1, 2, 3} THEN 80 + 20 * i ELSE 300, 120, 0)

RecCatalog == [i \in 1..MaxRecSongs |-> RecSong(i)]

RecPlaylists ==
    { <<>>, <<1>>, <<1, 2>>, <<2, 1>>, <<1, 2, 3>>, <<3, 1, 2>>, <<1, 2, 3, 4>>,
      <<4, 3, 2, 1>>, <<5, 3, 4>>, [i \in 1..MaxRecSongs |-> i] }

\* the songs played, the first one played first; in the two long ones song
\* 3 is the 21st and the 20th most recent
RecHistories ==
    { <<>>, <<1>>, <<2>>, <<1, 2>>, <<4>>, <<5>>, <<3, 1>>,
      <<3>> \o [i \in 1..RecentWindow |-> 1],
      <<3>> \o [i \in 1..(RecentWindow - 1) |-> 1] }

RecCounts == { -1, 0, 1, 2, 3, MaxRecSongs + 1 }

RECURSIVE PHS_PushAll(_, _)
PHS_PushAll(phs, played) ==
    IF played = <<>> THEN phs
    ELSE PHS_PushAll(PHS_Push(phs, Head(played)), Tail(played))

InitRec ==
    /\ songs = RecCatalog
    /\ currentPlaylist \in { DLL_AddAll(NewDoublyLinkedList, p) : p \in RecPlaylists }
    /\ playbackHistory \in { PHS_PushAll(NewPlaybackHistoryStack(EngineHistorySize), h) :
                                h \in RecHistories }
    /\ ratingTree = NewSongRatingBST
    /\ songLookup = NewSongHashMap(EngineMapCapacity)
    /\ titleLookup = NewSongHashMap(EngineMapCapacity)
    /\ playlistTree = NewPlaylistExplorerTree
    /\ sorter = SortByTitle
    /\ totalPlayTime = 0
    /\ clock = 0
    /\ pushed = <<>>
    /\ sortInput = <<>>
    /\ sortOutput = <<>>
    /\ overwritten = 0
    /\ returned = <<>>
    /\ panicked = FALSE

R_GetSmartRecommendations(count) ==
    /\ returned' = PE_GetSmartRecommendations(count)
    /\ UNCHANGED <<songs, currentPlaylist, playbackHistory, ratingTree, songLookup,
                   titleLookup, playlistTree, sorter, totalPlayTime, clock, pushed,
                   sortInput, sortOutput, overwritten, panicked>>

Recommend == \E count \in RecCounts : R_GetSmartRecommendations(count)

NextRec == Recommend

SpecRec == InitRec /\ [][NextRec]_vars

(***************************************************************************)
(* PlaylistExplorerTree alone: songs of TreeCatalog are added to a tree    *)
(* from NewPlaylistExplorerTree on.                                       *)
(***************************************************************************)
MaxTreeSongs == 3

StrTitleRock == <<82, 111, 99, 107>>
StrUpperRock == <<82, 79, 67, 75>>
StrSpaceRock == <<32, 114, 79, 99, 107>>
StrTitleJazz == <<74, 97, 122, 122>>

TreeSong(id, artist, genre) ==
    NewSong(id, id, artist, StrAlbum, genre, StrSub, StrMood, 100, 120, 0)

\* "rock ", "Rock", "ROCK" and " rOck" of one artist, written "x", "X" and
\* "x "; a song of the genre "jazz" and one of the genre " "
TreeCatalog ==
    << TreeSong(<<49>>, StrX, <<114, 111, 99, 107, 32>>),
       TreeSong(<<50>>, <<88>>, StrTitleRock),
       TreeSong(<<51>>, <<120, 32>>, StrUpperRock),
       TreeSong(<<52>>, StrX, StrSpaceRock),
       TreeSong(<<53>>, StrX, StrJazz),
       TreeSong(<<54>>, StrX, StrBlank) >>

InitTree ==
    /\ songs = TreeCatalog
    /\ currentPlaylist = NewDoublyLinkedList
    /\ playbackHistory = NewPlaybackHistoryStack(EngineHistorySize)
    /\ ratingTree = NewSongRatingBST
    /\ songLookup = NewSongHashMap(EngineMapCapacity)
    /\ titleLookup = NewSongHashMap(EngineMapCapacity)
    /\ playlistTree = NewPlaylistExplorerTree
    /\ sorter = SortByTitle
    /\ totalPlayTime = 0
    /\ clock = 0
    /\ pushed = <<>>
    /\ sortInput = <<>>
    /\ sortOutput = <<>>
    /\ overwritten = 0
    /\ returned = <<>>
    /\ panicked = FALSE

T_AddSong(song) ==
    /\ playlistTree.TotalSongs < MaxTreeSongs
    /\ playlistTree' = PET_AddSong(playlistTree, songs, song)
    /\ UNCHANGED <<songs, currentPlaylist, playbackHistory, ratingTree, songLookup,
                   titleLookup, sorter, totalPlayTime, clock, pushed,
                   sortInput, sortOutput, overwritten, returned, panicked>>

\* RemoveSong: an error and no change when no artist node holds the ID
T_RemoveSong(songID) ==
    /\ LET out == PET_RemoveSongOutcomes(playlistTree, songs, songID)
       IN  IF out = {} THEN UNCHANGED playlistTree ELSE playlistTree' \in out
    /\ UNCHANGED <<songs, currentPlaylist, playbackHistory, ratingTree, songLookup,
                   titleLookup, sorter, totalPlayTime, clock, pushed,
                   sortInput, sortOutput, overwritten, returned, panicked>>

\* the IDs of the songs of TreeCatalog and "0", the ID of none of them
TreeIDs == { TreeCatalog[h].ID : h \in DOMAIN TreeCatalog } \cup { <<48>> }

TreeAdd == \E song \in DOMAIN TreeCatalog : T_AddSong(song)

NextTree == TreeAdd

SpecTree == InitTree /\ [][NextTree]_vars

\* the tree with songs added to it and removed from it
TreeRemove == \E songID \in TreeIDs : T_RemoveSong(songID)

NextRemove ==
    \/ TreeAdd
    \/ TreeRemove

SpecRemove == InitTree /\ [][NextRemove]_vars

(***************************************************************************)
(* SongRatingBST alone: songs of RatedCatalog are inserted into and        *)
(* deleted from a tree from NewSongRatingBST on.                           *)
(***************************************************************************)
MaxRated == 3

RatedSong(id) == NewSong(id, id, StrX, StrAlbum, StrRock, StrSub, StrMood, 100, 120, 0)

RatedCatalog == << RatedSong(StrA), RatedSong(StrB), RatedSong(StrC) >>

RatedIDs == { RatedCatalog[h].ID : h \in DOMAIN RatedCatalog } \cup { StrNonexistent }

RatingInputs == 0..6

AllButRatings == <<currentPlaylist, playbackHistory, songLookup, titleLookup,
                   playlistTree, sorter, totalPlayTime, clock, pushed,
                   sortInput, sortOutput, overwritten, panicked>>

InitBST ==
    /\ songs = RatedCatalog
    /\ currentPlaylist = NewDoublyLinkedList
    /\ playbackHistory = NewPlaybackHistoryStack(EngineHistorySize)
    /\ ratingTree = NewSongRatingBST
    /\ songLookup = NewSongHashMap(EngineMapCapacity)
    /\ titleLookup = NewSongHashMap(EngineMapCapacity)
    /\ playlistTree = NewPlaylistExplorerTree
    /\ sorter = SortByTitle
    /\ totalPlayTime = 0
    /\ clock = 0
    /\ pushed = <<>>
    /\ sortInput = <<>>
    /\ sortOutput = <<>>
    /\ overwritten = 0
    /\ returned = <<>>
    /\ panicked = FALSE

B_InsertSong(song, rating) ==
    /\ Len(BST_GetAllSongs(ratingTree)) < MaxRated
    /\ \E ins \in { BST_InsertSong(ratingTree, songs, song, rating) } :
          /\ ratingTree' = ins.bst
          /\ songs' = ins.heap
    /\ UNCHANGED returned
    /\ UNCHANGED AllButRatings

B_DeleteSong(songID) ==
    /\ ratingTree' = BST_DeleteSong(ratingTree, songs, songID).bst
    /\ UNCHANGED <<songs, returned>>
    /\ UNCHANGED AllButRatings

RatedInsert ==
    \E song \in DOMAIN RatedCatalog, rating \in RatingInputs : B_InsertSong(song, rating)
RatedDelete == \E songID \in RatedIDs : B_DeleteSong(songID)
NextBST ==
    \/ RatedInsert
    \/ RatedDelete

SpecBST == InitBST /\ [][NextBST]_vars

(***************************************************************************)
(* GetSongsByRatingRange alone: a tree of any shape is queried.  Song h of *)
(* RangeCatalog is rated h, the last song is rated 3 as song 3 is.         *)
(***************************************************************************)
MaxRangeSongs == 6

RangeRating(h) == IF h <= 5 THEN h ELSE 3

RangeCatalog ==
    [h \in 1..MaxRangeSongs |->
        [RatedSong(<<96 + h>>) EXCEPT !.Rating = RangeRating(h)]]

\* the orders songs of different ratings are inserted in
RangeOrders ==
    { p \in UNION { [1..k -> 1..5] : k \in 0..5 } :
        \A i, j \in DOMAIN p : p[i] = p[j] => i = j }

\* the tree after InsertSong of these songs, in this order
RECURSIVE BST_InsertAll(_, _, _)
BST_InsertAll(bst, hp, order) ==
    IF order = <<>> THEN bst
    ELSE BST_InsertAll(BST_InsertSong(bst, hp, Head(order), hp[Head(order)].Rating).bst,
                       hp, Tail(order))

RangeTrees ==
    { BST_InsertAll(NewSongRatingBST, RangeCatalog, p) : p \in RangeOrders } \cup
    { BST_InsertAll(NewSongRatingBST, RangeCatalog, p \o <<MaxRangeSongs>>) :
        p \in RangeOrders }

InitRange ==
    /\ songs = RangeCatalog
    /\ currentPlaylist = NewDoublyLinkedList
    /\ playbackHistory = NewPlaybackHistoryStack(EngineHistorySize)
    /\ ratingTree \in RangeTrees
    /\ songLookup = NewSongHashMap(EngineMapCapacity)
    /\ titleLookup = NewSongHashMap(EngineMapCapacity)
    /\ playlistTree = NewPlaylistExplorerTree
    /\ sorter = SortByTitle
    /\ totalPlayTime = 0
    /\ clock = 0
    /\ pushed = <<>>
    /\ sortInput = <<>>
    /\ sortOutput = <<>>
    /\ overwritten = 0
    /\ returned = <<>>
    /\ panicked = FALSE

B_GetSongsByRatingRange(minRating, maxRating) ==
    /\ returned' = BST_GetSongsByRatingRange(ratingTree, minRating, maxRating)
    /\ UNCHANGED <<songs, ratingTree>>
    /\ UNCHANGED AllButRatings

RatedRange ==
    \E minRating, maxRating \in RatingInputs : B_GetSongsByRatingRange(minRating, maxRating)

NextRange == RatedRange

SpecRange == InitRange /\ [][NextRange]_vars

(***************************************************************************)
(* The containers handed a nil song: a list, a stack and a rating tree     *)
(* that hold some of the songs of RatedCatalog get AddSong(nil), Push(nil) *)
(* and InsertSong(nil, rating).                                           *)
(***************************************************************************)
MaxNils == 2

NilSong == 0

NilLists == { <<>>, <<1>>, <<1, 2>>, <<2, 1>> }

NilStacks == { <<>>, <<1>>, <<1, 2>> }

NilTrees == { <<>>, <<1>>, <<2, 1>> }

\* InsertSong calls song.SetRating once the rating is found valid, and
\* SetRating stores the rating in the song it is called on: with the nil
\* song that is a nil pointer dereference
BST_InsertSongPanics(song, rating) == rating >= 1 /\ rating <= 5 /\ song = NilSong

InitNil ==
    /\ songs = [h \in DOMAIN RatedCatalog |-> [RatedCatalog[h] EXCEPT !.Rating = 3]]
    /\ currentPlaylist \in { DLL_AddAll(NewDoublyLinkedList, l) : l \in NilLists }
    /\ playbackHistory \in { PHS_PushAll(NewPlaybackHistoryStack(MaxNils), p) :
                                p \in NilStacks }
    /\ ratingTree \in { BST_InsertAll(NewSongRatingBST,
                                      [h \in DOMAIN RatedCatalog |->
                                          [RatedCatalog[h] EXCEPT !.Rating = 3]], t) :
                           t \in NilTrees }
    /\ songLookup = NewSongHashMap(EngineMapCapacity)
    /\ titleLookup = NewSongHashMap(EngineMapCapacity)
    /\ playlistTree = NewPlaylistExplorerTree
    /\ sorter = SortByTitle
    /\ totalPlayTime = 0
    /\ clock = 0
    /\ pushed = <<>>
    /\ sortInput = <<>>
    /\ sortOutput = <<>>
    /\ overwritten = 0
    /\ returned = <<>>
    /\ panicked = FALSE

N_AddSong ==
    /\ ~panicked
    /\ Cardinality({ i \in DOMAIN DLL_ToSlice(currentPlaylist) :
                        DLL_ToSlice(currentPlaylist)[i] = NilSong }) < MaxNils
    /\ currentPlaylist' = DLL_AddSong(currentPlaylist, NilSong)
    /\ UNCHANGED <<songs, playbackHistory, ratingTree, songLookup, titleLookup,
                   playlistTree, sorter, totalPlayTime, clock, pushed,
                   sortInput, sortOutput, overwritten, returned, panicked>>

N_Push ==
    /\ ~panicked
    /\ playbackHistory' = PHS_Push(playbackHistory, NilSong)
    /\ UNCHANGED <<songs, currentPlaylist, ratingTree, songLookup, titleLookup,
                   playlistTree, sorter, totalPlayTime, clock, pushed,
                   sortInput, sortOutput, overwritten, returned, panicked>>

N_InsertSong(rating) ==
    /\ ~panicked
    /\ panicked' = BST_InsertSongPanics(NilSong, rating)
    /\ UNCHANGED <<songs, currentPlaylist, playbackHistory, ratingTree, songLookup,
                   titleLookup, playlistTree, sorter, totalPlayTime, clock, pushed,
                   sortInput, sortOutput, overwritten, returned>>

NilInsert == \E rating \in RatingInputs : N_InsertSong(rating)

NextNil ==
    \/ N_AddSong
    \/ N_Push
    \/ NilInsert

SpecNil == InitNil /\ [][NextNil]_vars

(***************************************************************************)
(* SongHashMap filled: two maps of FillCapacity buckets take the songs of  *)
(* FillCatalog, songLookup with Put and titleLookup with PutByTitle.  The  *)
(* IDs a, c, e, g and the titles A, C, E, G hash to an even number, the ID *)
(* b and the title B to an odd one.                                        *)
(***************************************************************************)
FillCapacity == 2

FillCatalog ==
    << MapSong(<<97>>, <<65>>), MapSong(<<99>>, <<67>>), MapSong(<<101>>, <<69>>),
       MapSong(<<103>>, <<71>>), MapSong(<<98>>, <<66>>) >>

InitFill ==
    /\ songs = FillCatalog
    /\ currentPlaylist = NewDoublyLinkedList
    /\ playbackHistory = NewPlaybackHistoryStack(EngineHistorySize)
    /\ ratingTree = NewSongRatingBST
    /\ songLookup = NewSongHashMap(FillCapacity)
    /\ titleLookup = NewSongHashMap(FillCapacity)
    /\ playlistTree = NewPlaylistExplorerTree
    /\ sorter = SortByTitle
    /\ totalPlayTime = 0
    /\ clock = 0
    /\ pushed = <<>>
    /\ sortInput = <<>>
    /\ sortOutput = <<>>
    /\ overwritten = 0
    /\ returned = <<>>
    /\ panicked = FALSE

F_Put(song) ==
    /\ songLookup' = SHM_Put(songLookup, songs, song)
    /\ UNCHANGED <<titleLookup, overwritten>>
    /\ UNCHANGED AllButMaps

F_PutByTitle(song) ==
    /\ titleLookup' = SHM_PutByTitle(titleLookup, songs, song)
    /\ UNCHANGED <<songLookup, overwritten>>
    /\ UNCHANGED AllButMaps

FillPut == \E song \in DOMAIN FillCatalog : F_Put(song)
FillPutByTitle == \E song \in DOMAIN FillCatalog : F_PutByTitle(song)

NextFill ==
    \/ FillPut
    \/ FillPutByTitle

SpecFill == InitFill /\ [][NextFill]_vars

(***************************************************************************)
(* hash alone: a map of one of HashCapacities takes one key of HashKeys    *)
(* and hashes it.  The key is the ID of the one song.  HashKeys has every  *)
(* beginning of StrWraps, the 14 letters "aieqwiofjzxjnr": from the 11th   *)
(* letter on h * 33 + c no longer fits into 64 bits.                       *)
(***************************************************************************)
MaxKeyLen == 3

StrWraps == <<97, 105, 101, 113, 119, 105, 111, 102, 106, 122, 120, 106, 110, 114>>

\* the key "üñ" of two runes above 127
StrUnicode == <<252, 241>>

HashKeys ==
    { SubSeq(StrWraps, 1, n) : n \in 0..Len(StrWraps) }
        \cup UNION { [1..n -> {97, 98, 45}] : n \in 0..MaxKeyLen }
        \cup { StrUnicode }

HashCapacities == { 10, DefaultCapacity, EngineMapCapacity, 1000 }

InitHash ==
    /\ \E key \in HashKeys : songs = << MapSong(key, StrX) >>
    /\ currentPlaylist = NewDoublyLinkedList
    /\ playbackHistory = NewPlaybackHistoryStack(EngineHistorySize)
    /\ ratingTree = NewSongRatingBST
    /\ \E capacity \in HashCapacities : songLookup = NewSongHashMap(capacity)
    /\ titleLookup = NewSongHashMap(DefaultCapacity)
    /\ playlistTree = NewPlaylistExplorerTree
    /\ sorter = SortByTitle
    /\ totalPlayTime = 0
    /\ clock = 0
    /\ pushed = <<>>
    /\ sortInput = <<>>
    /\ sortOutput = <<>>
    /\ overwritten = 0
    /\ returned = <<>>
    /\ panicked = FALSE

\* shm.hash(key) on songLookup; returned holds the index
H_hash(key) ==
    /\ returned' = << hash(key, songLookup.Capacity) >>
    /\ UNCHANGED <<songs, currentPlaylist, playbackHistory, ratingTree, songLookup,
                   titleLookup, playlistTree, sorter, totalPlayTime, clock, pushed,
                   sortInput, sortOutput, overwritten, panicked>>

HashKey == \E song \in DOMAIN songs : H_hash(songs[song].ID)

NextHash == HashKey

SpecHash == InitHash /\ [][NextHash]_vars

(***************************************************************************)
(* What the claims speak of.                                               *)
(***************************************************************************)
Range(seq) == { seq[i] : i \in DOMAIN seq }

\* how often x occurs in seq
Count(seq, x) == Cardinality({ i \in DOMAIN seq : seq[i] = x })

\* the songs of the playlist, first to last
Playlist == DLL_ToSlice(currentPlaylist)

\* the songs of the playback history, most recent first
History == PHS_ToSlice(playbackHistory)

RatingBuckets == BST_Buckets(ratingTree.Root)

\* the IDs a lookup is tried with: those of all songs ever made, and one more
QueryIDs == { songs[h].ID : h \in DOMAIN songs } \cup { StrNonexistent }

(***************************************************************************)
(* C1: in every state the engine reaches, every song in the playlist with  *)
(* a rating r > 0 is exactly once in the bucket of rating r (what a search *)
(* by rating r returns) and in no bucket of another rating; there is one   *)
(* bucket per rating.  Rating a song again, with the same or another       *)
(* value, leads to such a state too.                                       *)
(***************************************************************************)
C1_RatingBuckets ==
    /\ \A h \in Range(Playlist) :
          songs[h].Rating > 0 =>
             /\ Count(BST_SearchByRating(ratingTree, songs[h].Rating), h) = 1
             /\ \A i \in DOMAIN RatingBuckets :
                   RatingBuckets[i].Rating # songs[h].Rating =>
                      Count(RatingBuckets[i].Songs, h) = 0
    /\ \A i, j \in DOMAIN RatingBuckets :
          RatingBuckets[i].Rating = RatingBuckets[j].Rating => i = j

\* two rated songs in the playlist, one per bucket, the tree two nodes high
C1_Witness ==
    /\ Len(Playlist) = 2
    /\ songs[Playlist[1]].Rating = 4
    /\ songs[Playlist[2]].Rating = 2
    /\ Len(RatingBuckets) = 2
    /\ RatingBuckets[1].Rating = 2

(***************************************************************************)
(* C2: in every state the engine reaches, a lookup by ID succeeds exactly  *)
(* for the IDs of the songs in the playlist and returns a song of the      *)
(* playlist with the ID asked for (so the lookup of a deleted song's ID    *)
(* fails), and the ID index is as large as the playlist is long.           *)
(***************************************************************************)
C2_LookupByID ==
    /\ \A id \in QueryIDs :
          LET got == SHM_Get(songLookup, id)
          IN  /\ got.ok <=> \E h \in Range(Playlist) : songs[h].ID = id
              /\ got.ok => got.song \in Range(Playlist) /\ songs[got.song].ID = id
    /\ SHM_GetSize(songLookup) = DLL_Size(currentPlaylist)
    /\ SHM_GetSize(songLookup) = Len(Playlist)

\* a song was deleted and the lookup of its ID fails, one is left and is found
C2_Witness ==
    /\ Len(songs) = 2
    /\ Len(Playlist) = 1
    /\ SHM_GetByTitle(titleLookup, songs[1].Title).ok
    /\ ~SHM_Get(songLookup, songs[1].ID).ok
    /\ SHM_Get(songLookup, songs[2].ID).ok

(***************************************************************************)
(* C3: a MoveSong(from, to) of the list with from # to and both indexes    *)
(* within the list leaves the song that was at index `from` at index `to`  *)
(* and the other songs in the order they had, for to < from and for        *)
(* to > from.                                                              *)
(***************************************************************************)
MovedTo(old, new, fromIndex, toIndex) ==
    /\ Len(new) = Len(old)
    /\ new[toIndex + 1] = old[fromIndex + 1]
    /\ RemoveAt(new, toIndex + 1) = RemoveAt(old, fromIndex + 1)

C3_MoveTo ==
    [][\A fromIndex, toIndex \in 0..(currentPlaylist.Length - 1) :
          (fromIndex # toIndex /\ L_MoveSong(fromIndex, toIndex)) =>
             MovedTo(Playlist, Playlist', fromIndex, toIndex)]_vars

(***************************************************************************)
(* C4: an AddSong with the title and the artist of a song that is in the   *)
(* playlist fails as a duplicate and changes nothing, whenever it is made. *)
(***************************************************************************)
C4_DuplicateAdd ==
    [][\A a \in AllSongArgs :
          (/\ \E h \in Range(Playlist) :
                 songs[h].Title = a.title /\ songs[h].Artist = a.artist
           /\ PE_AddSong(a)) => UNCHANGED vars]_vars

(***************************************************************************)
(* C5: after any sequence of AddSong, AddSongAtIndex, AddSongToBeginning,  *)
(* DeleteSong, MoveSong, ReversePlaylist and Clear of the list: the head   *)
(* has no previous and the tail no next node, no node is met twice going   *)
(* from the head, Length is the number of nodes met, and going back from   *)
(* the tail meets the same nodes in the reverse order.  Length grows by    *)
(* one with every insert, falls by one with every removal that succeeds,   *)
(* stays with a move or a reversal and is 0 after Clear.                   *)
(***************************************************************************)
Reverse(seq) == [i \in 1..Len(seq) |-> seq[Len(seq) + 1 - i]]

ListWellFormed(dll) ==
    /\ (dll.Head = 0) <=> (dll.Tail = 0)
    /\ dll.Head # 0 => dll.nodes[dll.Head].Prev = 0 /\ dll.nodes[dll.Tail].Next = 0
    /\ Len(Forward(dll)) <= Cardinality(DOMAIN dll.nodes)
    /\ Cardinality(Range(Forward(dll))) = Len(Forward(dll))
    /\ dll.Length = Len(Forward(dll))
    /\ Backward(dll) = Reverse(Forward(dll))
    /\ DLL_ToSliceBackward(dll) = Reverse(DLL_ToSlice(dll))

LengthCounts ==
    /\ \A song \in ListSongs :
          L_AddSong(song) \/ L_AddSongToBeginning(song) =>
             currentPlaylist'.Length = currentPlaylist.Length + 1
    /\ \A song \in ListSongs, index \in ListIndexes :
          (DLL_AddSongAtIndex(currentPlaylist, song, index).ok
              /\ L_AddSongAtIndex(song, index)) =>
             currentPlaylist'.Length = currentPlaylist.Length + 1
    /\ \A index \in ListIndexes :
          (DLL_DeleteSong(currentPlaylist, index).ok /\ L_DeleteSong(index)) =>
             currentPlaylist'.Length = currentPlaylist.Length - 1
    /\ \A fromIndex, toIndex \in ListIndexes :
          L_MoveSong(fromIndex, toIndex) =>
             currentPlaylist'.Length = currentPlaylist.Length
    /\ L_ReversePlaylist => currentPlaylist'.Length = currentPlaylist.Length
    /\ L_Clear => currentPlaylist'.Length = 0

C5_ListInvariants == [](ListWellFormed(currentPlaylist)) /\ [][LengthCounts]_vars

\* a list of three songs whose head is not the node made first and whose
\* nodes are not in the order they were made in
C5_Witness ==
    /\ currentPlaylist.Length = 3
    /\ Forward(currentPlaylist) = <<2, 3, 1>>
    /\ Playlist = <<1, 3, 2>>

(***************************************************************************)
(* C6: a DeleteSong(index) that succeeds takes the song out of the         *)
(* playlist, the ID index, every rating bucket and every artist node of    *)
(* the explorer tree, and lowers totalPlayTime by the song's duration; the *)
(* other songs stay where they were in the playlist and in each index.     *)
(***************************************************************************)
Deleted(index) == DLL_DeleteSong(currentPlaylist, index)

DeleteSongRemoves(index) ==
    LET h == Deleted(index).song
    IN  /\ Playlist' = RemoveAt(Playlist, index + 1)
        /\ h \notin Range(Playlist')
        /\ ~SHM_Get(songLookup', songs[h].ID).ok
        /\ \A i \in DOMAIN RatingBuckets' : Count(RatingBuckets'[i].Songs, h) = 0
        /\ \A p \in PET_Leaves(playlistTree') :
              Count(PET_LeafNode(playlistTree', p).Songs, h) = 0
        /\ totalPlayTime' = totalPlayTime - songs[h].Duration
        /\ songs' = songs
        /\ \A o \in Range(Playlist') :
              /\ SHM_Get(songLookup', songs[o].ID) = SHM_Get(songLookup, songs[o].ID)
              /\ \A r \in 1..5 :
                    Count(BST_SearchByRating(ratingTree', r), o)
                       = Count(BST_SearchByRating(ratingTree, r), o)
              /\ PET_Leaves(playlistTree') = PET_Leaves(playlistTree)
              /\ \A p \in PET_Leaves(playlistTree) :
                    Count(PET_LeafNode(playlistTree', p).Songs, o)
                       = Count(PET_LeafNode(playlistTree, p).Songs, o)

C6_DeleteSong ==
    [][\A index \in Indexes :
          (Deleted(index).ok /\ PE_DeleteSong(index)) => DeleteSongRemoves(index)]_vars

\* the first song made was rated and then deleted (its title is still
\* looked up), the second is in the playlist, rated, and in the tree
C6_Witness ==
    /\ Len(songs) = 2
    /\ Playlist = <<2>>
    /\ songs[1].Rating > 0
    /\ songs[2].Rating > 0
    /\ songs[1].Title # songs[2].Title
    /\ SHM_GetByTitle(titleLookup, songs[1].Title).ok
    /\ totalPlayTime = songs[2].Duration
    /\ playlistTree.TotalSongs = 1

(***************************************************************************)
(* C7: DeleteSong leaves the title index as it is: the lookup of the       *)
(* deleted song's title succeeds after the delete and returns the song it  *)
(* returned before.                                                        *)
(***************************************************************************)
C7_TitleIndexKept ==
    [][\A index \in Indexes :
          (Deleted(index).ok /\ PE_DeleteSong(index)) =>
             LET title  == songs[Deleted(index).song].Title
                 before == SHM_GetByTitle(titleLookup, title)
                 after  == SHM_GetByTitle(titleLookup', title)
             IN  /\ titleLookup' = titleLookup
                 /\ before.ok
                 /\ after.ok
                 /\ after.song = before.song]_vars

\* no song is in the playlist and the lookup of a title returns a song
C7_Witness ==
    /\ Len(songs) = 1
    /\ Playlist = <<>>
    /\ SHM_GetByTitle(titleLookup, songs[1].Title).ok
    /\ SHM_GetByTitle(titleLookup, songs[1].Title).song = 1

(***************************************************************************)
(* C8: a PlaySong(index) that succeeds adds exactly 1 to the PlayCount of  *)
(* the song at that index, to no other, and pushes one entry for that song *)
(* on top of the history; a song is never more often in the history than   *)
(* it was played, so a song played twice has PlayCount 2 and is the two    *)
(* most recent entries.                                                    *)
(***************************************************************************)
PlaySongCounts(index) ==
    LET h == DLL_GetSong(currentPlaylist, index).song
    IN  /\ h = Playlist[index + 1]
        /\ songs'[h].PlayCount = songs[h].PlayCount + 1
        /\ \A o \in DOMAIN songs \ {h} : songs'[o].PlayCount = songs[o].PlayCount
        /\ History' = <<h>> \o History
        /\ PHS_GetSize(playbackHistory') = PHS_GetSize(playbackHistory) + 1

C8_PlaySong ==
    /\ [](\A h \in DOMAIN songs : Count(History, h) <= songs[h].PlayCount)
    /\ [][\A index \in Indexes :
             (DLL_GetSong(currentPlaylist, index).ok /\ PE_PlaySong(index)) =>
                PlaySongCounts(index)]_vars

\* the song made second was played twice
C8_Witness ==
    /\ Len(songs) = 2
    /\ songs[2].PlayCount = 2
    /\ songs[1].PlayCount = 0
    /\ PHS_GetSize(playbackHistory) = 2
    /\ PHS_GetRecentSongs(playbackHistory, 2) = <<2, 2>>

(***************************************************************************)
(* C9: UndoLastPlay with an empty history returns an error and changes     *)
(* nothing; otherwise it takes the most recent entry off the history and   *)
(* returns its song, and changes no song (no PlayCount, no LastPlayed).    *)
(* No operation of the engine lowers a PlayCount.                          *)
(***************************************************************************)
UndoLastPlayPops ==
    LET pop == PHS_UndoLastPlay(playbackHistory)
    IN  IF PHS_IsEmpty(playbackHistory)
        THEN ~pop.ok /\ UNCHANGED vars
        ELSE /\ pop.ok
             /\ pop.song = History[1]
             /\ History' = Tail(History)
             /\ PHS_GetSize(playbackHistory') = PHS_GetSize(playbackHistory) - 1
             /\ songs' = songs

PlayCountsStay ==
    /\ Len(songs') >= Len(songs)
    /\ \A h \in DOMAIN songs : songs'[h].PlayCount >= songs[h].PlayCount

C9_UndoLastPlay ==
    /\ [](PHS_IsEmpty(playbackHistory) =>
             /\ ~PHS_UndoLastPlay(playbackHistory).ok
             /\ PHS_UndoLastPlay(playbackHistory).phs = playbackHistory)
    /\ [][(PE_UndoLastPlay => UndoLastPlayPops) /\ PlayCountsStay]_vars

\* two songs were played, one after the other, and both plays were undone
C9_Witness ==
    /\ Len(songs) = 2
    /\ PHS_IsEmpty(playbackHistory)
    /\ songs[1].PlayCount = 1
    /\ songs[2].PlayCount = 1
    /\ songs[1].LastPlayed # NoTime
    /\ songs[2].LastPlayed # NoTime

(***************************************************************************)
(* C10: in every state Push, Pop, Clear and SetMaxSize of the history      *)
(* stack lead to, Size is at most MaxSize and is the number of entries of  *)
(* the chain, and the stack holds the most recently pushed of the entries  *)
(* not yet popped, the most recent first; a Push onto a full stack drops   *)
(* the bottom entry and no other, and the stack then holds the MaxSize     *)
(* most recently pushed of them.                                           *)
(***************************************************************************)
StackBounded ==
    /\ PHS_GetSize(playbackHistory) <= playbackHistory.MaxSize
    /\ PHS_GetSize(playbackHistory) = Len(History)
    /\ Len(History) <= Len(pushed)
    /\ History = SubSeq(pushed, 1, Len(History))

PushEvicts ==
    \A song \in StackSongs :
       (PHS_GetSize(playbackHistory) = playbackHistory.MaxSize /\ S_Push(song)) =>
          /\ History' = <<song>> \o SubSeq(History, 1, Len(History) - 1)
          /\ History' = SubSeq(pushed', 1, playbackHistory.MaxSize)

C10_HistoryStack == [](StackBounded) /\ [][PushEvicts]_vars

\* three songs were pushed onto the stack of two, none popped
C10_Witness ==
    /\ playbackHistory.MaxSize = StackMaxSize
    /\ pushed = <<2, 1, 2>>
    /\ History = <<2, 1>>
    /\ PHS_GetSize(playbackHistory) = 2

(***************************************************************************)
(* The sorter's claims, of the slice sortInput and the criteria `sorter`.  *)
(***************************************************************************)
Merged == MergeSort(sorter, songs, sortInput)
Quicked == QuickSort(sorter, songs, sortInput)
Heaped == HeapSort(sorter, songs, sortInput)

\* compare puts no element of seq after its successor
Sorted(seq) ==
    \A i \in 1..(Len(seq) - 1) : compare(sorter, songs, seq[i], seq[i + 1]) <= 0

\* a and b hold, place by place, songs that compare equal
SameUpToTies(a, b) ==
    /\ Len(a) = Len(b)
    /\ \A i \in 1..Len(a) : compare(sorter, songs, a[i], b[i]) = 0

\* no two different songs of seq compare equal
NoTies(seq) ==
    \A i, j \in 1..Len(seq) :
       seq[i] # seq[j] => compare(sorter, songs, seq[i], seq[j]) # 0

IsPermutation(a, b) ==
    /\ Len(a) = Len(b)
    /\ \A x \in Range(a) \cup Range(b) : Count(a, x) = Count(b, x)

SortsThenPermutes ==
    (S_MergeSort \/ S_QuickSort \/ S_HeapSort) =>
       /\ sortInput' = sortInput
       /\ IsPermutation(sortOutput', sortInput)
       /\ Sorted(sortOutput')

C13_SortsPermuteAndOrder ==
    /\ [](/\ IsPermutation(Merged, sortInput) /\ Sorted(Merged)
          /\ IsPermutation(Quicked, sortInput) /\ Sorted(Quicked)
          /\ IsPermutation(Heaped, sortInput) /\ Sorted(Heaped))
    /\ [][SortsThenPermutes]_vars

\* durations 400, 150, 250 sorted by duration, longest first
C13_Witness ==
    /\ sorter = SortByDurationDesc
    /\ sortInput = <<1, 2, 3>>
    /\ sortOutput = <<1, 3, 2>>
    /\ songs[1].Duration = 400 /\ songs[3].Duration = 250 /\ songs[2].Duration = 150

(***************************************************************************)
(* C14: after LoadSampleData has run, every song of the catalog that has a *)
(* rating r > 0 and that AddSong took is in the engine with the rating r   *)
(* and in the bucket of rating r.                                          *)
(***************************************************************************)
LoadedRated ==
    \A h \in (Len(songs) + 1)..Len(songs') :
       \A i \in DOMAIN generateSampleSongs :
          LET r == generateSampleSongs[i].Rating
          IN  (songs'[h].Title = generateSampleSongs[i].Title /\ r > 0) =>
                 /\ songs'[h].Rating = r
                 /\ Count(BST_SearchByRating(ratingTree', r), h) = 1

C14_LoaderRates == [][LoadSamples => LoadedRated]_vars

(***************************************************************************)
(* The hash map's claims.                                                  *)
(***************************************************************************)
\* no two entries of the map have the same key
OneEntryPerKey(shm) ==
    LET entries == SHM_Entries(shm.Buckets, 1)
    IN  \A i, j \in DOMAIN entries : entries[i].Key = entries[j].Key => i = j

Found(song) == [ok |-> TRUE, song |-> song]

(***************************************************************************)
(* C15: a Put (PutByTitle) of a song under a key the map holds puts the    *)
(* song in the place of the one stored and leaves Size as it was; a map    *)
(* has at most one entry per key; Get returns the song that was Put last   *)
(* under the ID, and of two songs with the same title put one after the    *)
(* other GetByTitle returns the second.                                    *)
(***************************************************************************)
PutReplaces ==
    \A song \in DOMAIN songs :
       /\ M_Put(song) =>
             /\ SHM_Get(songLookup', songs[song].ID) = Found(song)
             /\ SHM_Contains(songLookup, songs[song].ID) =>
                   SHM_GetSize(songLookup') = SHM_GetSize(songLookup)
       /\ (SHM_Contains(titleLookup, songs[song].Title) /\ M_PutByTitle(song)) =>
             /\ SHM_GetByTitle(titleLookup', songs[song].Title) = Found(song)
             /\ SHM_GetSize(titleLookup') = SHM_GetSize(titleLookup)

C15_PutReplaces ==
    /\ [](OneEntryPerKey(songLookup) /\ OneEntryPerKey(titleLookup))
    /\ [][PutReplaces]_vars

\* song 3 was put under the title that song 1 was stored under
C15_Witness ==
    /\ overwritten = 1
    /\ ~SHM_Contains(songLookup, songs[1].ID)
    /\ songs[3].Title = songs[1].Title
    /\ SHM_GetByTitle(titleLookup, songs[1].Title) = Found(3)
    /\ SHM_GetSize(titleLookup) = 1

(***************************************************************************)
(* C16: in the map keyed by ID (Put, Get) and in the map keyed by title    *)
(* (PutByTitle, GetByTitle), after any Put, one that makes the map resize  *)
(* too, every key that was put and not deleted is found and gives the song *)
(* stored last under it: the key just put gives the song just put, every   *)
(* other key what it gave before.                                          *)
(***************************************************************************)
PutKeepsIDs ==
    \A song \in DOMAIN songs :
       M_Put(song) =>
          /\ SHM_Get(songLookup', songs[song].ID) = Found(song)
          /\ \A k \in MapIDs \ { songs[song].ID } :
                SHM_Get(songLookup', k) = SHM_Get(songLookup, k)

PutKeepsTitles ==
    \A song \in DOMAIN songs :
       M_PutByTitle(song) =>
          /\ SHM_GetByTitle(titleLookup', songs[song].Title) = Found(song)
          /\ \A k \in MapTitles \ { songs[song].Title } :
                SHM_GetByTitle(titleLookup', k) = SHM_GetByTitle(titleLookup, k)

C16_KeysKept == [][PutKeepsIDs /\ PutKeepsTitles]_vars

(***************************************************************************)
(* C17: after a PlaySong(index) that succeeds, and after a RateSong that   *)
(* succeeds, the song played or rated is the one both indexes give: the    *)
(* lookup by its ID returns it and the lookup by its title returns it,     *)
(* also when another song with the same title was added after it.          *)
(***************************************************************************)
InBothIndexes(song) ==
    /\ SHM_Get(songLookup', songs'[song].ID) = Found(song)
    /\ SHM_GetByTitle(titleLookup', songs'[song].Title) = Found(song)

PlayedIsIndexed ==
    \A index \in Indexes :
       (DLL_GetSong(currentPlaylist, index).ok /\ PE_PlaySong(index)) =>
          InBothIndexes(DLL_GetSong(currentPlaylist, index).song)

RatedIsIndexed ==
    \A songID \in KnownIDs, rating \in 1..5 :
       (SHM_Get(songLookup, songID).ok /\ PE_RateSong(songID, rating)) =>
          InBothIndexes(SHM_Get(songLookup, songID).song)

C17_PlayedInBothIndexes == [][PlayedIsIndexed /\ RatedIsIndexed]_vars

(***************************************************************************)
(* C18: ReversePlaylist gives the songs in exactly the reversed order, and *)
(* ReversePlaylist applied twice gives back the list as it was, for a list *)
(* of no song, of one song and of more.                                    *)
(***************************************************************************)
ReversedOnce == DLL_ReversePlaylist(currentPlaylist)
ReversedTwice == DLL_ReversePlaylist(ReversedOnce)

C18_ReverseTwice ==
    /\ [](/\ DLL_ToSlice(ReversedOnce) = Reverse(Playlist)
          /\ DLL_ToSlice(ReversedTwice) = Playlist
          /\ ReversedTwice = currentPlaylist)
    /\ [][L_ReversePlaylist => Playlist' = Reverse(Playlist)]_vars

\* three songs, one of them twice, that read another way round when reversed
C18_Witness ==
    /\ Playlist = <<1, 2, 3, 1>>
    /\ DLL_ToSlice(ReversedOnce) = <<1, 3, 2, 1>>
    /\ ReversedOnce # currentPlaylist
    /\ ReversedTwice = currentPlaylist

(***************************************************************************)
(* C19: MoveSong and ReversePlaylist of the engine change the order of the *)
(* playlist and nothing else: the playlist holds the same songs, and the   *)
(* songs themselves, the playback history, the rating tree, both lookup    *)
(* maps, the explorer tree and the total play time are as they were.       *)
(***************************************************************************)
OrderOnly ==
    /\ IsPermutation(Playlist', Playlist)
    /\ DLL_Size(currentPlaylist') = DLL_Size(currentPlaylist)
    /\ UNCHANGED <<songs, playbackHistory, ratingTree, songLookup, titleLookup,
                   playlistTree, totalPlayTime>>

C19_OrderOnly ==
    [][(PE_ReversePlaylist \/ \E fromIndex, toIndex \in Indexes :
                                 PE_MoveSong(fromIndex, toIndex)) => OrderOnly]_vars

\* the second song added stands first; both are rated, played and indexed
C19_Witness ==
    /\ Playlist = <<2, 1>>
    /\ songs[1].Rating > 0 /\ songs[2].Rating > 0
    /\ Len(RatingBuckets) = 2
    /\ History = <<2, 1>>
    /\ SHM_GetSize(songLookup) = 2
    /\ totalPlayTime = songs[1].Duration + songs[2].Duration

(***************************************************************************)
(* C20: DeleteSong(index) and PlaySong(index) of the engine fail, with the *)
(* error of an index out of range, exactly when index < 0 or index >= the  *)
(* length of the playlist; MoveSong(from, to) fails exactly when one of    *)
(* the two indexes is outside [0, length); a call that fails changes       *)
(* nothing of the engine, and a DeleteSong that does not fail makes the    *)
(* playlist one shorter.                                                   *)
(***************************************************************************)
OutOfRange(index) == index < 0 \/ index >= DLL_Size(currentPlaylist)

FailsWhenOutOfRange ==
    /\ \A index \in Indexes :
          /\ ~DLL_DeleteSong(currentPlaylist, index).ok <=> OutOfRange(index)
          /\ ~DLL_GetSong(currentPlaylist, index).ok <=> OutOfRange(index)
    /\ \A fromIndex, toIndex \in Indexes :
          ~DLL_MoveSong(currentPlaylist, fromIndex, toIndex).ok
             <=> (OutOfRange(fromIndex) \/ OutOfRange(toIndex))

FailureChangesNothing ==
    /\ \A index \in Indexes :
          /\ (OutOfRange(index) /\ (PE_DeleteSong(index) \/ PE_PlaySong(index))) =>
                UNCHANGED vars
          /\ (~OutOfRange(index) /\ PE_DeleteSong(index)) =>
                DLL_Size(currentPlaylist') = DLL_Size(currentPlaylist) - 1
    /\ \A fromIndex, toIndex \in Indexes :
          ((OutOfRange(fromIndex) \/ OutOfRange(toIndex))
              /\ PE_MoveSong(fromIndex, toIndex)) => UNCHANGED vars

C20_IndexOutOfRange == []FailsWhenOutOfRange /\ [][FailureChangesNothing]_vars

\* one song in the playlist: index 0 is in range, -1 and 1 are not
C20_Witness ==
    /\ DLL_Size(currentPlaylist) = 1
    /\ DLL_GetSong(currentPlaylist, 0).ok
    /\ ~DLL_GetSong(currentPlaylist, 1).ok
    /\ ~DLL_DeleteSong(currentPlaylist, -1).ok
    /\ ~DLL_MoveSong(currentPlaylist, 0, 1).ok
    /\ DLL_MoveSong(currentPlaylist, 0, 0).ok
    /\ Len(songs) = 2

(***************************************************************************)
(* C21: RateSong(songID, rating) returns the error of the rating when the  *)
(* rating is outside 1..5 and the error of a song not found when the ID is *)
(* not a key of the ID index; a RateSong that returns an error leaves the  *)
(* songs with their ratings, the rating tree and both lookup maps as they  *)
(* were.                                                                   *)
(***************************************************************************)
InIDIndex(songID) ==
    \E b \in DOMAIN songLookup.Buckets :
       \E i \in DOMAIN songLookup.Buckets[b] : songLookup.Buckets[b][i].Key = songID

RateSongFails ==
    \A songID \in KnownIDs, rating \in Ratings :
       /\ (rating < 1 \/ rating > 5) => PE_RateSongError(songID, rating) = ErrRating
       /\ (rating \in 1..5 /\ ~InIDIndex(songID)) =>
             PE_RateSongError(songID, rating) = ErrSongNotFound
       /\ (rating \in 1..5 /\ InIDIndex(songID)) =>
             PE_RateSongError(songID, rating) = NoError

\* a step that changes one of them is no RateSong that returns an error
RateFailureChangesNothing ==
    ~UNCHANGED <<songs, ratingTree, songLookup, titleLookup>> =>
       \A songID \in KnownIDs, rating \in Ratings :
          (rating < 1 \/ rating > 5 \/ ~InIDIndex(songID)) =>
             ~PE_RateSong(songID, rating)

C21_RateSongFails == []RateSongFails /\ [][RateFailureChangesNothing]_vars

\* a rated song in the playlist and a deleted one: ratings 0 and 6 and the
\* ID of the deleted song are what RateSong turns down
C21_Witness ==
    /\ Len(songs) = 2
    /\ Playlist = <<1>>
    /\ songs[1].Rating = 4
    /\ PE_RateSongError(songs[1].ID, 6) = ErrRating
    /\ PE_RateSongError(songs[1].ID, 0) = ErrRating
    /\ PE_RateSongError(songs[2].ID, 4) = ErrSongNotFound
    /\ PE_RateSongError(songs[1].ID, 2) = NoError

(***************************************************************************)
(* C22: AddSong returns the error of a title or artist required whenever   *)
(* the title or the artist is empty once the white space around it is      *)
(* taken off; an AddSong that returns it adds nothing to the playlist, the *)
(* lookup maps, the rating tree and the explorer tree, makes no song, and  *)
(* leaves the total play time as it was.                                   *)
(***************************************************************************)
OnlySpace(s) == \A i \in DOMAIN s : IsSpace(s[i])

AddSongFails ==
    \A a \in AllSongArgs :
       (OnlySpace(a.title) \/ OnlySpace(a.artist)) <=> PE_AddSongError(a) = ErrRequired

\* a step that changes one of them is no AddSong that returns the error
AddFailureChangesNothing ==
    ~UNCHANGED <<songs, currentPlaylist, songLookup, titleLookup, ratingTree,
                 playlistTree, totalPlayTime>> =>
       \A a \in AllSongArgs :
          (OnlySpace(a.title) \/ OnlySpace(a.artist)) => ~PE_AddSong(a)

C22_AddSongFails == []AddSongFails /\ [][AddFailureChangesNothing]_vars

\* one song is in the playlist; a title of one blank, no artist, and an
\* artist of two blanks are turned down
C22_Witness ==
    /\ Playlist = <<1>>
    /\ Len(songs) = 1
    /\ totalPlayTime = songs[1].Duration
    /\ \A a \in InvalidSongArgs : PE_AddSongError(a) = ErrRequired
    /\ \A a \in ValidSongArgs : PE_AddSongError(a) # ErrRequired
    /\ \E a \in ValidSongArgs : PE_AddSongError(a) = ErrDuplicate
\* the IDs of the (at most 20) songs played most recently
RejectedIDs ==
    { songs[History[i]].ID : i \in 1..Min(RecentWindow, Len(History)) }

\* the songs of the playlist that were not played recently
NotRejected == { i \in DOMAIN Playlist : songs[Playlist[i]].ID \notin RejectedIDs }

\* out holds songs of the playlist only, none played recently, none twice,
\* and n of them when there are that many
Recommends(out, n) ==
    /\ Range(out) \subseteq Range(Playlist)
    /\ \A i \in DOMAIN out : songs[out[i]].ID \notin RejectedIDs
    /\ \A i, j \in DOMAIN out : out[i] = out[j] => i = j
    /\ Len(out) = Min(n, Cardinality(NotRejected))

\* the count GetSmartRecommendations works with
EffectiveCount(count) == IF count > 0 THEN count ELSE DefaultCount

\* C23 as stated: with a history that is not empty, GetSmartRecommendations(count)
\* returns songs of the playlist only, none of them among the 20 played most
\* recently, none twice, and min(count, songs not played recently) of them
C23_RecommendsCount ==
    History # <<>> =>
        \A count \in RecCounts : Recommends(PE_GetSmartRecommendations(count), count)

\* C23 amended: the same with the count taken as 10 when it is not positive
C23_RecommendsEffectiveCount ==
    History # <<>> =>
        \A count \in RecCounts :
            Recommends(PE_GetSmartRecommendations(count), EffectiveCount(count))

\* a playlist of four songs after song 1 was played: three were returned,
\* the similar song 2 first, and a call with count 0 would return three too
C23_Witness ==
    /\ History = <<1>>
    /\ Playlist = <<4, 3, 2, 1>>
    /\ returned = <<2, 4, 3>>
    /\ PE_GetSmartRecommendations(0) = <<2, 4, 3>>
    /\ PE_GetSmartRecommendations(2) = <<2, 4>>

\* C24: with an empty history GetSmartRecommendations(count) returns the
\* first min(c, length) songs of the playlist in order, c being count when
\* count > 0 and 10 otherwise
C24_FirstSongs ==
    History = <<>> =>
        \A count \in RecCounts :
            PE_GetSmartRecommendations(count) =
                SubSeq(Playlist, 1, Min(EffectiveCount(count), Len(Playlist)))

\* the playlist of eleven songs, nothing played: ten songs were returned
C24_Witness ==
    /\ History = <<>>
    /\ Len(Playlist) = MaxRecSongs
    /\ returned = [i \in 1..DefaultCount |-> i]
    /\ PE_GetSmartRecommendations(2) = <<1, 2>>
\* the state of the engine
EngineState ==
    <<songs, currentPlaylist, playbackHistory, ratingTree, songLookup, titleLookup,
      playlistTree, sorter, totalPlayTime>>

\* the state of the engine but for the criteria of its sorter
EngineStateButCriteria ==
    <<songs, currentPlaylist, playbackHistory, ratingTree, songLookup, titleLookup,
      playlistTree, totalPlayTime>>

\* C25 as stated: ExportSnapshot and GetPlaylistStats change nothing of the
\* engine's state
C25_PureReads ==
    [][(PE_ExportSnapshot \/ PE_GetPlaylistStatsCall) => UNCHANGED EngineState]_vars

\* C25 amended: GetPlaylistStats changes nothing of the engine's state;
\* ExportSnapshot changes nothing but the criteria of the engine's sorter,
\* which it leaves at duration descending
C25_ReadsButCriteria ==
    /\ [][PE_GetPlaylistStatsCall => UNCHANGED EngineState]_vars
    /\ [][PE_ExportSnapshot =>
            UNCHANGED EngineStateButCriteria /\ sorter' = SortByDurationDesc]_vars

\* a snapshot was taken of a playlist that is not in the order of the
\* criteria the sorter is left with
C25_Witness ==
    /\ sorter = SortByDurationDesc
    /\ Playlist = <<1, 2>>
    /\ songs[1].Duration < songs[2].Duration
    /\ PE_TopLongest = <<2, 1>>
    /\ PE_GetPlaylistStats.total_songs = 2
\* the durations of the songs of the playlist, summed
PlaylistDuration == SeqSum([i \in DOMAIN Playlist |-> songs[Playlist[i]].Duration])

\* C26: whatever was added, deleted, moved, reversed, sorted, played, rated
\* or cleared, the total play time is the sum of the durations of the songs
\* of the playlist
C26_TotalIsSum == totalPlayTime = PlaylistDuration

\* two songs were added and the first deleted: the total is the duration
\* of the second
C26_Witness ==
    /\ Len(songs) = 2
    /\ Playlist = <<2>>
    /\ songs[1].Duration # songs[2].Duration
    /\ totalPlayTime = songs[2].Duration
    /\ PE_GetPlaylistStats.total_duration = songs[2].Duration
\* the titles a lookup is made with: those of the songs ever added, as
\* they were given and in lower case
QueryTitles(hp) ==
    { hp[h].Title : h \in DOMAIN hp } \cup { ToLower(hp[h].Title) : h \in DOMAIN hp }

\* the playlist is empty, the total play time 0, no ID and no title is
\* found, no rating has songs and the tree has no genres
ClearedOf(hp, playlist, total, ids, titles, ratings, tree) ==
    /\ DLL_ToSlice(playlist) = <<>>
    /\ DLL_Size(playlist) = 0
    /\ total = 0
    /\ \A h \in DOMAIN hp : ~SHM_Get(ids, hp[h].ID).ok
    /\ ~SHM_Get(ids, StrNonexistent).ok
    /\ \A title \in QueryTitles(hp) : ~SHM_GetByTitle(titles, title).ok
    /\ \A rating \in 0..6 : BST_SearchByRating(ratings, rating) = <<>>
    /\ PET_GetGenres(tree) = {}
    /\ PET_GetStats(tree).genres = 0

Cleared ==
    ClearedOf(songs, currentPlaylist, totalPlayTime, songLookup, titleLookup,
              ratingTree, playlistTree)

\* C27: after ClearPlaylist the playlist is empty, the total play time is 0,
\* a lookup by any ID or title fails, every rating query is empty and the
\* tree lists no genres
C27_ClearPlaylist ==
    [][PE_ClearPlaylist =>
         ClearedOf(songs', currentPlaylist', totalPlayTime', songLookup', titleLookup',
                   ratingTree', playlistTree')]_vars

\* a playlist of two songs, one rated and one played, was cleared
C27_Witness ==
    /\ Len(songs) = 2
    /\ songs[1].Rating = 4
    /\ songs[2].PlayCount = 1
    /\ History = <<2>>
    /\ Cleared
\* s without the spaces before its first and after its last character that
\* is not a space
Core(s) ==
    LET inked == { i \in DOMAIN s : s[i] # 32 }
    IN  IF inked = {} THEN <<>>
        ELSE SubSeq(s, CHOOSE i \in inked : \A j \in inked : i <= j,
                       CHOOSE i \in inked : \A j \in inked : j <= i)

\* a and b differ in nothing but the case of their letters and the spaces
\* around them
SameButCaseAndSpace(a, b) ==
    /\ Len(Core(a)) = Len(Core(b))
    /\ \A i \in DOMAIN Core(a) :
          \/ Core(a)[i] = Core(b)[i]
          \/ Core(a)[i] \in 65..90 /\ Core(b)[i] = Core(a)[i] + 32
          \/ Core(b)[i] \in 65..90 /\ Core(a)[i] = Core(b)[i] + 32

\* the songs the tree holds, each with the path of its artist node
TreeEntries ==
    UNION { { [path |-> p, song |-> PET_LeafNode(playlistTree, p).Songs[i]] :
                i \in DOMAIN PET_LeafNode(playlistTree, p).Songs } :
            p \in PET_Leaves(playlistTree) }

RockSongs == { h \in DOMAIN songs : SameButCaseAndSpace(songs[h].Genre, StrRock) }
\* C28: songs whose genres differ in nothing but case and the spaces around
\* them are under one genre node, and under one artist node when their
\* subgenres, moods and artists differ in nothing else either; songs of the
\* genres "rock ", "Rock", "ROCK" make the one genre "Rock"
C28_OneNode ==
    /\ \A e, f \in TreeEntries :
          /\ SameButCaseAndSpace(songs[e.song].Genre, songs[f.song].Genre)
                => e.path[1] = f.path[1]
          /\ ( /\ SameButCaseAndSpace(songs[e.song].Genre, songs[f.song].Genre)
               /\ SameButCaseAndSpace(songs[e.song].SubGenre, songs[f.song].SubGenre)
               /\ SameButCaseAndSpace(songs[e.song].Mood, songs[f.song].Mood)
               /\ SameButCaseAndSpace(songs[e.song].Artist, songs[f.song].Artist) )
                => e.path = f.path
    /\ \A e \in TreeEntries : e.song \in RockSongs => e.path[1] = StrTitleRock
    /\ (TreeEntries # {} /\ \A e \in TreeEntries : e.song \in RockSongs) =>
          /\ PET_GetGenres(playlistTree) = { StrTitleRock }
          /\ PET_GetStats(playlistTree).genres = 1

\* the songs of the genres "rock ", "Rock" and "ROCK" were added: the one
\* genre is "Rock" and the three songs are at one artist
C28_Witness ==
    /\ PET_GetGenres(playlistTree) = { StrTitleRock }
    /\ PET_GetSongs(playlistTree, StrTitleRock, <<83>>, <<77>>, <<88>>) = <<1, 2, 3>>
    /\ RockSongs = {1, 2, 3, 4}
\* the normalized genres of the songs of the playlist
PlaylistGenres ==
    { Normalize(songs[Playlist[i]].Genre, UnknownGenre) : i \in DOMAIN Playlist }

RecentOf(n) ==
    IF n <= 0 THEN <<>> ELSE SubSeq(pushed, 1, Min(n, PHS_GetSize(playbackHistory)))

RecentSongsReturned ==
    \A n \in RecentCounts : PHS_GetRecentSongs(playbackHistory, n) = RecentOf(n)

RecentSongsReads ==
    \A n \in RecentCounts :
       S_GetRecentSongs(n) => returned' = RecentOf(n) /\ UNCHANGED <<playbackHistory, pushed>>

\* C30: GetRecentSongs(n) returns nothing when n <= 0 and else the
\* min(n, size) songs pushed last, the last one first, and leaves the stack
\* as it is
C30_RecentSongs == [](RecentSongsReturned) /\ [][RecentSongsReads]_vars

\* three songs were pushed onto the stack of two and the two it holds
\* were returned
C30_Witness ==
    /\ pushed = <<2, 1, 2>>
    /\ History = <<2, 1>>
    /\ returned = <<2, 1>>
    /\ PHS_GetRecentSongs(playbackHistory, StackMaxSize + 1) = <<2, 1>>
    /\ PHS_GetRecentSongs(playbackHistory, 1) = <<2>>
    /\ PHS_GetRecentSongs(playbackHistory, 0) = <<>>
(***************************************************************************)
(* The rating tree's claims.                                               *)
(***************************************************************************)
\* the ratings of the nodes of a tree
TreeRatings(tree) == { BST_Buckets(tree)[i].Rating : i \in DOMAIN BST_Buckets(tree) }

\* at every node the ratings to the left are lower and those to the right
\* higher
RECURSIVE TreeOrdered(_)
TreeOrdered(tree) ==
    \/ tree = NilTree
    \/ /\ \A r \in TreeRatings(tree[1].Left) : r < tree[1].Bucket.Rating
       /\ \A r \in TreeRatings(tree[1].Right) : r > tree[1].Bucket.Rating
       /\ TreeOrdered(tree[1].Left)
       /\ TreeOrdered(tree[1].Right)

\* C36: whatever was inserted and deleted, the tree is ordered by rating,
\* a rating of 1..5 is at one node at most, no node has an empty bucket and
\* NodeCount is the number of nodes
C36_TreeInvariants ==
    LET buckets == BST_Buckets(ratingTree.Root)
    IN  /\ TreeOrdered(ratingTree.Root)
        /\ \A i \in DOMAIN buckets : buckets[i].Rating \in 1..5
        /\ \A i, j \in DOMAIN buckets : buckets[i].Rating = buckets[j].Rating => i = j
        /\ \A i \in DOMAIN buckets : buckets[i].Songs # <<>>
        /\ ratingTree.NodeCount = Len(buckets)

\* songs were inserted with the ratings 3, 1 and 5 and the one rated 3
\* deleted: the node of the rating 5 has taken the root's place
C36_Witness ==
    /\ ratingTree.NodeCount = 2
    /\ ratingTree.Root[1].Bucket.Rating = 5
    /\ ratingTree.Root[1].Left # NilTree
    /\ ratingTree.Root[1].Left[1].Bucket.Rating = 1
    /\ ratingTree.Root[1].Right = NilTree
    /\ \E h \in DOMAIN songs :
          songs[h].Rating = 3 /\ h \notin Range(BST_GetAllSongs(ratingTree))
\* the songs of the buckets whose rating is from minRating to maxRating
RECURSIVE BucketsInRange(_, _, _)
BucketsInRange(buckets, minRating, maxRating) ==
    IF buckets = <<>> THEN <<>>
    ELSE (IF Head(buckets).Rating \in minRating..maxRating
          THEN Head(buckets).Songs ELSE <<>>)
         \o BucketsInRange(Tail(buckets), minRating, maxRating)

\* a and b hold the same songs, each as often
SameSongs(a, b) ==
    /\ Len(a) = Len(b)
    /\ \A h \in Range(a) \cup Range(b) : Count(a, h) = Count(b, h)

RangeReturned(out, minRating, maxRating) ==
    IF minRating > maxRating \/ minRating \notin 1..5 \/ maxRating \notin 1..5
    THEN out = <<>>
    ELSE SameSongs(out, BucketsInRange(RatingBuckets, minRating, maxRating))

\* C31: GetSongsByRatingRange(min, max) returns the songs of the buckets
\* whose rating is in min..max, each once, whatever the shape of the tree,
\* and nothing when min > max or a bound is not in 1..5
C31_RatingRange ==
    /\ [](\A minRating, maxRating \in RatingInputs :
            RangeReturned(BST_GetSongsByRatingRange(ratingTree, minRating, maxRating),
                          minRating, maxRating))
    /\ [][\A minRating, maxRating \in RatingInputs :
            B_GetSongsByRatingRange(minRating, maxRating) =>
                RangeReturned(returned', minRating, maxRating)]_vars

\* the tree with 4 at the root, 2 below it and 3 below that, the two songs
\* rated 3 in one bucket: asked for 3 to 5 it returned the songs rated 4, 3,
\* 3 and 5
C31_Witness ==
    /\ ratingTree.NodeCount = 5
    /\ ratingTree.Root[1].Bucket.Rating = 4
    /\ ratingTree.Root[1].Left[1].Bucket.Rating = 2
    /\ returned = <<4, 3, 6, 5>>
    /\ BST_GetSongsByRatingRange(ratingTree, 2, 1) = <<>>
    /\ BST_GetSongsByRatingRange(ratingTree, 0, 5) = <<>>
(***************************************************************************)
(* The containers' claims of the nil song.                                 *)
(***************************************************************************)
\* C32: AddSong(nil) leaves the size of the list, Push(nil) the size of the
\* stack and InsertSong(nil, rating) the rating tree as they were, and
\* none of them fails
C32_NilIsNoOp ==
    /\ [][N_AddSong => DLL_Size(currentPlaylist') = DLL_Size(currentPlaylist)]_vars
    /\ [][N_Push => PHS_GetSize(playbackHistory') = PHS_GetSize(playbackHistory)]_vars
    /\ [][\A rating \in RatingInputs :
            N_InsertSong(rating) => ratingTree' = ratingTree /\ ~panicked']_vars
(***************************************************************************)
(* The engine's claims of a deleted song and the playback history.         *)
(***************************************************************************)
\* the deleted song is in no answer of the playlist, the ID index, the
\* rating tree and the explorer tree
GoneFromIndexes(h, playlist, ids, ratings, tree) ==
    /\ h \notin Range(DLL_ToSlice(playlist))
    /\ ~SHM_Get(ids, songs[h].ID).ok
    /\ \A r \in 1..5 : h \notin Range(BST_SearchByRating(ratings, r))
    /\ \A p \in PET_Leaves(tree) : h \notin Range(PET_LeafNode(tree, p).Songs)

\* C33 as stated: after a DeleteSong that succeeded the song is in none of
\* the structures that held it, the playback history among them: neither
\* GetRecentSongs nor the history's statistics show it
C33_GoneFromHistory ==
    [][\A index \in Indexes :
          (Deleted(index).ok /\ PE_DeleteSong(index)) =>
             /\ GoneFromIndexes(Deleted(index).song, currentPlaylist', songLookup',
                                ratingTree', playlistTree')
             /\ Deleted(index).song
                   \notin Range(PHS_GetRecentSongs(playbackHistory', EngineHistorySize))
             /\ PHS_GetSize(playbackHistory')
                   = Cardinality({ i \in DOMAIN History :
                                      History[i] # Deleted(index).song })]_vars

\* C33 amended: after a DeleteSong that succeeded the song is in none of
\* the playlist, the ID index, the rating tree and the explorer tree; the
\* playback history is as it was, and GetRecentSongs returns what it
\* returned before, the deleted song included
C33_HistoryKept ==
    [][\A index \in Indexes :
          (Deleted(index).ok /\ PE_DeleteSong(index)) =>
             /\ GoneFromIndexes(Deleted(index).song, currentPlaylist', songLookup',
                                ratingTree', playlistTree')
             /\ UNCHANGED playbackHistory
             /\ PHS_GetRecentSongs(playbackHistory', EngineHistorySize) = History]_vars

\* the one song made was played and deleted: the playlist is empty, the
\* genre is still in the tree and the history still returns the song
C33_Witness ==
    /\ Len(songs) = 1
    /\ Playlist = <<>>
    /\ PET_GetGenres(playlistTree) # {}
    /\ ~SHM_Get(songLookup, songs[1].ID).ok
    /\ PHS_GetRecentSongs(playbackHistory, 1) = <<1>>
(***************************************************************************)
(* The hash map's claims of its size and of its hash function.             *)
(***************************************************************************)
\* C34: after every Put and PutByTitle the map holds at most twice as many
\* entries as it has buckets, whether the new entry came to an empty bucket
\* or to a chain
C34_LoadFactor ==
    /\ SHM_GetSize(songLookup) <= 2 * songLookup.Capacity
    /\ SHM_GetSize(titleLookup) <= 2 * titleLookup.Capacity
\* C35: hash returns a bucket index from 0 up to Capacity - 1 for every key,
\* of any length
C35_HashInRange ==
    returned # <<>> => returned[1] \in 0..(songLookup.Capacity - 1)
\* the songs of seq that compare equal to song x, in the order seq has them
TiedWith(seq, x) == SelectSeq(seq, LAMBDA y : compare(sorter, songs, x, y) = 0)

\* C37: MergeSort is stable: under every criteria, the songs that compare
\* equal come back in the order the slice handed in has them
C37_MergeSortStable ==
    \A x \in Range(sortInput) : TiedWith(Merged, x) = TiedWith(sortInput, x)

\* by title, b then A then a: A and a tie and stay in that order
C37_Witness ==
    /\ sorter = SortByTitle
    /\ sortInput = <<3, 2, 1>>
    /\ sortOutput = Merged
    /\ sortOutput = <<2, 1, 3>>
\* the names on the paths of the artist nodes of a tree
PET_Names(pet) == UNION { Range(p) : p \in PET_Leaves(pet) }

\* every child listing of tree a is the listing of tree b
SameChildren(a, b) ==
    LET names == PET_Names(a) \cup PET_Names(b)
    IN  /\ PET_GetGenres(a) = PET_GetGenres(b)
        /\ \A g \in names : PET_GetSubgenres(a, g) = PET_GetSubgenres(b, g)
        /\ \A g, s \in names : PET_GetMoods(a, g, s) = PET_GetMoods(b, g, s)
        /\ \A g, s, m \in names : PET_GetArtists(a, g, s, m) = PET_GetArtists(b, g, s, m)

\* some artist node holds a song with this ID
HeldInTree(pet, hp, songID) ==
    \E p \in PET_Leaves(pet) :
       \E k \in DOMAIN PET_LeafNode(pet, p).Songs :
          hp[PET_LeafNode(pet, p).Songs[k]].ID = songID

\* tree b is tree a with one song of this ID less at one artist node, and
\* nothing else of the songs changed
OneSongLess(a, b, hp, songID) ==
    /\ PET_Leaves(b) = PET_Leaves(a)
    /\ \E p \in PET_Leaves(a) :
          /\ \E k \in DOMAIN PET_LeafNode(a, p).Songs :
                /\ hp[PET_LeafNode(a, p).Songs[k]].ID = songID
                /\ PET_LeafNode(b, p).Songs = RemoveAt(PET_LeafNode(a, p).Songs, k)
          /\ \A q \in PET_Leaves(a) \ {p} :
                PET_LeafNode(b, q).Songs = PET_LeafNode(a, q).Songs

\* C38: RemoveSong takes one song with this ID from one artist node, changes
\* nothing when no artist node holds the ID, and takes no genre, subgenre,
\* mood or artist node away: every child listing is as it was before
C38_RemoveKeepsNodes ==
    [][\A songID \in TreeIDs :
          T_RemoveSong(songID) =>
             /\ SameChildren(playlistTree, playlistTree')
             /\ IF HeldInTree(playlistTree, songs, songID)
                THEN OneSongLess(playlistTree, playlistTree', songs, songID)
                ELSE UNCHANGED playlistTree]_vars

\* the one song of an artist was removed: the node is there with no song
C38_Witness ==
    /\ playlistTree.TotalSongs = 1
    /\ Cardinality(PET_Leaves(playlistTree)) = 2
    /\ \E p \in PET_Leaves(playlistTree) : PET_LeafNode(playlistTree, p).Songs = <<>>
\* the places of song h in the tree: the artist node and the index in its Songs
TreePlaces(h) ==
    UNION { { <<p, i>> : i \in { k \in DOMAIN PET_LeafNode(playlistTree, p).Songs :
                                    PET_LeafNode(playlistTree, p).Songs[k] = h } } :
            p \in PET_Leaves(playlistTree) }

\* C39: in every state the engine reaches, the songs at the artist nodes of
\* the tree are the songs of the playlist, each at one place of one artist
\* node, and TotalSongs is the length of the playlist
C39_TreeHoldsPlaylist ==
    /\ playlistTree.TotalSongs = Len(Playlist)
    /\ \A h \in DOMAIN songs :
          Cardinality(TreePlaces(h)) = (IF h \in Range(Playlist) THEN 1 ELSE 0)

\* a song was deleted and left its artist node empty; another is in the playlist
C39_Witness ==
    /\ Len(Playlist) = 1
    /\ playlistTree.TotalSongs = 1
    /\ \E p \in PET_Leaves(playlistTree) : PET_LeafNode(playlistTree, p).Songs = <<>>
    /\ TreePlaces(Playlist[1]) # {}

====
